---- MODULE Spec2Model ----
(***************************************************************************)
(* A model of the ai-chat-orchestrator service.                            *)
(*                                                                         *)
(* Part A: the two retrying HTTP clients of the persistence backend,       *)
(*         EdgeFunctionProxy.proxy_request and                             *)
(*         SupabaseClient.call_edge_function.                              *)
(* Part B: one POST /v1/chat/completions request, from the balance gate    *)
(*         to the background save of the assistant message.                *)
(* Part C: the authentication dependencies in front of every protected     *)
(*         endpoint, AuthService and verify_token / get_current_user.      *)
(* Part D: CacheService, its Redis tier and its in-memory fallback map.    *)
(* Part E: the routers that read and change a conversation, and the cached *)
(*         conversation detail.                                            *)
(* Part F: the http middleware stack.                                      *)
(* Part G: the batch conversation operation.                               *)
(* Part H: POST /v1/chat/regenerate.                                       *)
(* Part I: the token cache of AuthService in time.                         *)
(* Part J: StreamAccumulator.                                              *)
(* Part K: the message-content validator.                                  *)
(* Part L: add_message and the backend's record of the message.            *)
(* Part M: the sampling parameters sent to the gateway.                    *)
(***************************************************************************)
EXTENDS Integers, Sequences, FiniteSets, TLC

VARIABLES
    \* ---- Part A: one call through a retrying client
    svc,        \* which client runs the call: "none", "proxy" or "edge"
    rpc,        \* position in the call: idle, request, sleep, returned, raised
    retries,    \* the `retries` argument of the call
    attempt,    \* the loop variable of `for attempt in range(retries + 1)`
    seen,       \* the backend's answers to the attempts sent so far
    waits,      \* the arguments of the asyncio.sleep calls made so far
    result      \* what the call gave its caller

VARIABLES
    \* ---- Part B: one POST /v1/chat/completions request
    cpc,            \* position of the request in the pipeline
    stream,         \* request.stream
    profile,        \* the UserProfile the dependencies resolved
    calls,          \* the remote calls issued and returned so far, in order
    http,           \* the HTTP response: status line and error body
    body,           \* the SSE frames written to the response body so far
    epc,            \* position of event_stream: none, iter, finally, closed
    gpc,            \* position of litellm.stream_chat_completion
    acc,            \* full_response of litellm.stream_chat_completion
    full_response,  \* full_response of chat_stream / content of the accumulator
    tasks,          \* background_tasks: the content of each scheduled save
    bg,             \* what the background save did: none, saved, logged, raised
    gwlast          \* the gateway answer that failed the call, and what
                    \* stream_chat_completion raised for it

VARIABLES
    \* ---- Part C: one request through an authentication dependency
    apc,        \* position: idle, called, validated, answered
    dep,        \* the dependency of the endpoint: verify_token, get_current_user
    authz,      \* the Authorization header of the request
    tcache,     \* AuthService.cache: the tokens whose payload is cached
    aexc,       \* what validate_token_and_get_user raised (NoExc: it returned)
    ahttp       \* the status the request is answered with (0: not yet,
                \* 200: the dependency resolved and the handler runs)

varsA == <<svc, rpc, retries, attempt, seen, waits, result>>

varsB == <<cpc, stream, profile, calls, http, body, epc, gpc, acc,
           full_response, tasks, bg, gwlast>>

VARIABLES
    \* ---- Part D: the CacheService object and its callers
    now,        \* datetime.now(), in seconds
    cache,      \* redis_available, the Redis server's keys, fallback_cache
    ckey,       \* the key the callers of the run pass to the service
    cres,       \* the operation that completed last, and its result
    hist,       \* the last write of ckey in fallback mode
    nwrites     \* number of writes of other keys so far

VARIABLES
    \* ---- Part E: requests to the conversation, branch and message routers
    redis_enabled,  \* settings.redis_enabled
    backend,        \* the conversations of the persistence backend
    log,            \* the mutating calls that returned, by conversation
    rd,             \* the GET /v1/conversations/{id} in flight
    wr              \* the mutating call in flight

varsC == <<apc, dep, authz, tcache, aexc, ahttp>>

varsD == <<now, cache, ckey, cres, hist, nwrites>>

VARIABLES
    \* ---- Part F: a request in the middleware stack
    net,            \* its position, request ids, exception and response
    \* ---- Part G: a batch conversation operation
    bat             \* its position, number of ids, status and backend calls

VARIABLES
    \* ---- Part H: POST /v1/chat/regenerate
    rg,             \* the request: its position, calls, content and response
    \* ---- Part I: the token cache in time
    tk,             \* the clock, the cached tokens and the last validation
    \* ---- Part J: StreamAccumulator
    sa,             \* the frames, the position and the result of the accumulator
    \* ---- Part K: validate_message_content
    vt,             \* the message body passed to the validator and what it gave
    \* ---- Part L: add_message
    recorded,       \* how many times the backend recorded the message of the request
    \* ---- Part M: llm_params
    tp              \* the sampling parameters of a request, from its body to llm_params

varsE == <<redis_enabled, backend, log, rd, wr>>

varsF == <<net>>

varsG == <<bat>>

varsH == <<rg>>

varsI == <<tk>>

varsJ == <<sa>>

varsK == <<vt>>

varsL == <<recorded>>

varsM == <<tp>>

\* the variables of the parts after B
varsX == <<varsC, varsD, varsE, varsF, varsG, varsH, varsI, varsJ, varsK, varsL, varsM>>

vars == <<svc, rpc, retries, attempt, seen, waits, result,
          cpc, stream, profile, calls, http, body, epc, gpc, acc,
          full_response, tasks, bg, gwlast,
          apc, dep, authz, tcache, aexc, ahttp,
          now, cache, ckey, cres, hist, nwrites,
          redis_enabled, backend, log, rd, wr, net, bat,
          rg, tk, sa, vt, recorded, tp>>

(***************************************************************************)
(* Bounds and program constants                                            *)
(***************************************************************************)
\* largest `retries` argument explored
MaxRetries == 3

\* `retries: int = 3` of proxy_request and of call_edge_function
DefaultRetries == 3

(***************************************************************************)
(* Part A. The backend's answers                                           *)
(***************************************************************************)
\* status codes the backend may answer with: 200, another 2xx, the 4xx the
\* clients name, two 4xx they do not name, and two 5xx
Statuses == {200, 201, 400, 401, 403, 404, 429, 500, 503}

\* httpx.RequestError raised by the transport instead of a response
RequestError == [err |-> TRUE, status |-> 0, success |-> FALSE]

\* a response: its status code and, for a 200, the envelope's `success` field
Responses ==
    {RequestError}
    \cup {[err |-> FALSE, status |-> s, success |-> FALSE] : s \in Statuses}
    \cup {[err |-> FALSE, status |-> 200, success |-> TRUE]}

Is4xx(resp) == ~resp.err /\ resp.status >= 400 /\ resp.status < 500
Is5xx(resp) == ~resp.err /\ resp.status >= 500 /\ resp.status < 600

RECURSIVE Pow2(_)
\* 2 ** n
Pow2(n) == IF n = 0 THEN 1 ELSE 2 * Pow2(n - 1)

RECURSIVE SumSeq(_)
SumSeq(s) == IF s = <<>> THEN 0 ELSE Head(s) + SumSeq(Tail(s))

\* what one step of a call does: return a value, raise, or sleep and go on
NoResult == [act |-> "none", exc |-> "", status |-> 0, code |-> "", success |-> FALSE, wait |-> 0]
Return(st, ok, c) == [act |-> "return", exc |-> "", status |-> st, code |-> c, success |-> ok, wait |-> 0]
Raise(e, st, c) == [act |-> "raise", exc |-> e, status |-> st, code |-> c, success |-> FALSE, wait |-> 0]
Sleep(w) == [act |-> "sleep", exc |-> "", status |-> 0, code |-> "", success |-> FALSE, wait |-> w]

\* the exceptions of utils/errors.py with their HTTP status codes
EdgeFunctionError(c) == Raise("EdgeFunctionError", 500, c)
ServiceUnavailableError(c) == Raise("ServiceUnavailableError", 503, c)
\* fastapi.HTTPException(status_code=st)
HTTPException(st) == Raise("HTTPException", st, "")

(***************************************************************************)
(* EdgeFunctionProxy.proxy_request                                         *)
(***************************************************************************)
\* _transform_response for a 200: the success envelope, or the normalized
\* error envelope when the backend reported success=false
TransformResponse(resp) ==
    Return(200, resp.success, IF resp.success THEN "" ELSE "EDGE_FUNCTION_ERROR")

\* proxy_request with the backoff test off by one (`attempt <= retries`)
ProxyRetryOrRaiseOffByOne(att, ret, last) ==
    IF att <= ret THEN Sleep(Pow2(att)) ELSE last

\* proxy_request with a linear backoff (`2 * attempt`)
ProxyRetryOrRaiseLinear(att, ret, last) ==
    IF att < ret THEN Sleep(2 * att) ELSE last

\* `if attempt < retries: sleep(2 ** attempt); continue` else raise `last`
ProxyRetryOrRaise(att, ret, last) ==
    IF att < ret THEN Sleep(Pow2(att)) ELSE last

\* the body of the `try:` of one loop iteration, given the backend's answer
ProxyTry(resp, att, ret) ==
    IF resp.err THEN Raise("RequestError", 0, "")
    ELSE IF resp.status = 200 THEN TransformResponse(resp)
    ELSE IF resp.status = 401 THEN HTTPException(401)
    ELSE IF resp.status = 403 THEN HTTPException(403)
    ELSE IF resp.status = 404 THEN HTTPException(404)
    ELSE IF resp.status >= 400 /\ resp.status < 500 THEN HTTPException(resp.status)
    ELSE ProxyRetryOrRaise(att, ret, EdgeFunctionError("EDGE_FUNCTION_ERROR"))

\* the two `except` clauses around it: httpx.RequestError is retried, and
\* every other Exception raised in the try body (the HTTPExceptions and the
\* EdgeFunctionError included) is re-raised as EdgeFunctionError PROXY_ERROR
ProxyExcept(o, att, ret) ==
    IF o.act # "raise" THEN o
    ELSE IF o.exc = "RequestError"
         THEN ProxyRetryOrRaise(att, ret, ServiceUnavailableError("SERVICE_UNAVAILABLE"))
         ELSE EdgeFunctionError("PROXY_ERROR")

\* one iteration of the loop of proxy_request
ProxyStep(resp, att, ret) == ProxyExcept(ProxyTry(resp, att, ret), att, ret)

(***************************************************************************)
(* SupabaseClient.call_edge_function                                       *)
(***************************************************************************)
EdgeRetryOrRaise(att, ret, last) ==
    IF att < ret THEN Sleep(Pow2(att)) ELSE last

\* the body of the `try:` of one loop iteration
EdgeTry(resp, att, ret) ==
    IF resp.err THEN Raise("RequestError", 0, "")
    ELSE IF resp.status = 200
         THEN IF resp.success THEN Return(200, TRUE, "")
              ELSE EdgeFunctionError("EDGE_FUNCTION_ERROR")
    ELSE IF resp.status = 401 THEN EdgeFunctionError("AUTHENTICATION_ERROR")
    ELSE IF resp.status = 404 THEN EdgeFunctionError("NOT_FOUND_ERROR")
    ELSE EdgeRetryOrRaise(att, ret, EdgeFunctionError("HTTP_ERROR"))

\* the only `except` clause: httpx.RequestError
EdgeExcept(o, att, ret) ==
    IF o.act = "raise" /\ o.exc = "RequestError"
    THEN EdgeRetryOrRaise(att, ret, ServiceUnavailableError("SERVICE_UNAVAILABLE"))
    ELSE o

\* one iteration of the loop of call_edge_function
EdgeStep(resp, att, ret) == EdgeExcept(EdgeTry(resp, att, ret), att, ret)

(***************************************************************************)
(* The call as a state machine                                             *)
(***************************************************************************)
InitA ==
    /\ svc = "none"
    /\ rpc = "idle"
    /\ retries = 0
    /\ attempt = 0
    /\ seen = <<>>
    /\ waits = <<>>
    /\ result = NoResult

\* the effect of one loop iteration's outcome on the call
Apply(o) ==
    /\ rpc' = CASE o.act = "return" -> "returned"
                [] o.act = "raise" -> "raised"
                [] OTHER -> "sleep"
    /\ waits' = IF o.act = "sleep" THEN Append(waits, o.wait) ELSE waits
    /\ result' = IF o.act = "sleep" THEN result ELSE o

\* a caller invokes proxy_request(..., retries=r)
ProxyCall(r) ==
    /\ rpc = "idle"
    /\ svc' = "proxy"
    /\ retries' = r
    /\ attempt' = 0
    /\ rpc' = "request"
    /\ UNCHANGED <<seen, waits, result>>
    /\ UNCHANGED <<varsB, varsX>>

\* `response = await self.client.request(...)` and the handling of it
ProxyAttempt(resp) ==
    /\ svc = "proxy"
    /\ rpc = "request"
    /\ seen' = Append(seen, resp)
    /\ Apply(ProxyStep(resp, attempt, retries))
    /\ UNCHANGED <<svc, retries, attempt>>
    /\ UNCHANGED <<varsB, varsX>>

\* `await asyncio.sleep(wait_time); continue`
ProxyBackoff ==
    /\ svc = "proxy"
    /\ rpc = "sleep"
    /\ attempt' = attempt + 1
    /\ rpc' = "request"
    /\ UNCHANGED <<svc, retries, seen, waits, result>>
    /\ UNCHANGED <<varsB, varsX>>

\* a caller invokes call_edge_function(..., retries=r)
EdgeCall(r) ==
    /\ rpc = "idle"
    /\ svc' = "edge"
    /\ retries' = r
    /\ attempt' = 0
    /\ rpc' = "request"
    /\ UNCHANGED <<seen, waits, result>>
    /\ UNCHANGED <<varsB, varsX>>

\* `response = await self.client.post(...)` and the handling of it
EdgeAttempt(resp) ==
    /\ svc = "edge"
    /\ rpc = "request"
    /\ seen' = Append(seen, resp)
    /\ Apply(EdgeStep(resp, attempt, retries))
    /\ UNCHANGED <<svc, retries, attempt>>
    /\ UNCHANGED <<varsB, varsX>>

\* `await asyncio.sleep(wait_time); continue`
EdgeBackoff ==
    /\ svc = "edge"
    /\ rpc = "sleep"
    /\ attempt' = attempt + 1
    /\ rpc' = "request"
    /\ UNCHANGED <<svc, retries, seen, waits, result>>
    /\ UNCHANGED <<varsB, varsX>>

NextRetry ==
    \/ \E r \in 0..MaxRetries : ProxyCall(r)
    \/ \E resp \in Responses : ProxyAttempt(resp)
    \/ ProxyBackoff
    \/ \E r \in 0..MaxRetries : EdgeCall(r)
    \/ \E resp \in Responses : EdgeAttempt(resp)
    \/ EdgeBackoff

(***************************************************************************)
(* Part B. POST /v1/chat/completions                                       *)
(***************************************************************************)
\* largest number of content chunks the gateway sends in one completion
MaxChunks == 2

\* largest number of frames the generator wrapped by create_sse_response
\* yields when it is not chat_stream
MaxFrames == 3

\* available_balance values of a profile that reports one (0, and two
\* positive ones, 5.0 among them)
Balances == {0, 1, 5}

\* UserProfile: available_balance is Optional[float] with ge=0
Profiles ==
    {[has_balance |-> FALSE, available_balance |-> 0, max_budget |-> 100]}
    \cup {[has_balance |-> TRUE, available_balance |-> b, max_budget |-> 100] :
            b \in Balances}

\* the texts of choices[0].delta.content; <<>> is a chunk whose delta has no
\* content
Deltas == {<<>>, <<"a">>, <<"b">>}

\* ---- SSE frames (SSEFormatter) ----
ChunkFrame(d) == [t |-> "chunk", delta |-> d, code |-> ""]
\* SSEFormatter.format_done: "data: [DONE]\n\n"
DoneFrame == [t |-> "done", delta |-> <<>>, code |-> ""]
\* SSEFormatter.format_error(error, code, details)
ErrorFrame(c) == [t |-> "error", delta |-> <<>>, code |-> c]

\* ---- what a generator does when it is resumed ----
Yield(f) == [k |-> "yield", frame |-> f, code |-> ""]
Stop == [k |-> "stop", frame |-> DoneFrame, code |-> ""]
\* raises a ChatOrchestratorException with code c
Known(c) == [k |-> "known", frame |-> DoneFrame, code |-> c]
\* raises any other Exception
Unknown == [k |-> "unknown", frame |-> DoneFrame, code |-> ""]

\* ---- the HTTP response ----
NoHttp == [status |-> 0, code |-> "", details |-> <<>>]
HttpOk == [status |-> 200, code |-> "", details |-> <<>>]
HttpError(st, c, d) == [status |-> st, code |-> c, details |-> d]

(***************************************************************************)
(* dependencies.verify_user_balance                                        *)
(***************************************************************************)
\* the gate with `< 0` for `<= 0`
BalanceInsufficientStrict(p) == p.has_balance /\ p.available_balance < 0

\* TRUE when the gate raises the 402
BalanceInsufficient(p) == p.has_balance /\ p.available_balance <= 0

\* the HTTPException the gate raises
BalanceError(p) ==
    HttpError(402, "INSUFFICIENT_BALANCE", <<p.available_balance, p.max_budget>>)

(***************************************************************************)
(* LiteLLMService.stream_chat_completion                                   *)
(***************************************************************************)
\* what the gateway does next: answers the POST with a non-200 status, times
\* out, fails in transport, sends a data line with a chunk, sends the
\* [DONE] line, or ends the body
GwStatus(s) == [t |-> "status", status |-> s, delta |-> <<>>]
GwTimeout == [t |-> "timeout", status |-> 0, delta |-> <<>>]
GwRequestError == [t |-> "reqerr", status |-> 0, delta |-> <<>>]
GwChunk(d) == [t |-> "chunk", status |-> 200, delta |-> d]
GwDone == [t |-> "done", status |-> 200, delta |-> <<>>]
GwEof == [t |-> "eof", status |-> 200, delta |-> <<>>]
\* the generator is resumed after it yielded [DONE]: `break`
GwResume == [t |-> "resume", status |-> 200, delta |-> <<>>]

\* what the gateway can do next, by the position gp of the generator, when
\* it has sent n chunks
GatewayEvents(gp, n) ==
    IF gp = "done" THEN {GwResume}
    ELSE (IF gp = "unopened" THEN {GwStatus(s) : s \in {401, 429, 500}} ELSE {})
         \cup {GwTimeout, GwRequestError, GwDone, GwEof}
         \cup (IF n < MaxChunks THEN {GwChunk(d) : d \in Deltas} ELSE {})

\* the exception the `try:` body raises, as the `except` clauses re-raise it:
\* a timeout or transport error becomes ServiceUnavailableError; everything
\* else raised in the body (the LiteLLMError for a 401 or another non-200,
\* and the TypeError of RateLimitError(code=...) for a 429) becomes
\* LiteLLMError UNEXPECTED_ERROR
LiteLLMExcept(g) ==
    IF g.t = "timeout" THEN [exc |-> "ServiceUnavailableError", code |-> "TIMEOUT"]
    ELSE IF g.t = "reqerr"
         THEN [exc |-> "ServiceUnavailableError", code |-> "SERVICE_UNAVAILABLE"]
         ELSE [exc |-> "LiteLLMError", code |-> "UNEXPECTED_ERROR"]

\* one resumption of the generator: [k, frame, exc, code, acc, gpc]
LiteLLMNext(g, a) ==
    IF g.t = "chunk"
    THEN [k |-> "yield", frame |-> ChunkFrame(g.delta), exc |-> "", code |-> "",
          acc |-> a \o g.delta, gpc |-> "open"]
    ELSE IF g.t = "done"
    THEN [k |-> "yield", frame |-> DoneFrame, exc |-> "", code |-> "",
          acc |-> a, gpc |-> "done"]
    ELSE IF g.t \in {"eof", "resume"}
    THEN [k |-> "stop", frame |-> DoneFrame, exc |-> "", code |-> "",
          acc |-> a, gpc |-> "ended"]
    ELSE [k |-> "raise", frame |-> DoneFrame, exc |-> LiteLLMExcept(g).exc,
          code |-> LiteLLMExcept(g).code, acc |-> a, gpc |-> "failed"]

(***************************************************************************)
(* utils/streaming.create_sse_response.event_stream                        *)
(***************************************************************************)
\* event_stream whose `except` clauses only log
EventStreamFramesSilent(item) ==
    IF item.k = "yield" THEN <<item.frame>> ELSE <<>>

\* the frames event_stream yields for one resumption of the wrapped
\* generator, before its `finally`
EventStreamFrames(item) ==
    IF item.k = "yield" THEN <<item.frame>>
    ELSE IF item.k = "known" THEN <<ErrorFrame(item.code)>>
    ELSE IF item.k = "unknown" THEN <<ErrorFrame("INTERNAL_ERROR")>>
    ELSE <<>>

\* event_stream without the yield of its `finally:`
EventStreamFinallyNothing == <<>>

\* the frames the `finally:` yields
EventStreamFinallyFrames == <<DoneFrame>>

\* the status line of the StreamingResponse create_sse_response returns
SSEResponseStart == HttpOk

(***************************************************************************)
(* routers/chat.chat_completions                                           *)
(***************************************************************************)
\* the results a call of call_edge_function with the default retries can
\* give its caller
EdgeResults ==
    {o \in {EdgeStep(resp, a, DefaultRetries) :
              resp \in Responses, a \in 0..DefaultRetries} : o.act # "sleep"}

\* the `except` clauses of chat_completions: the HTTPException raised for an
\* exception of kind exc with code c
HandlerExcept(exc, c) ==
    IF exc = "InsufficientBalanceError" THEN HttpError(402, c, <<>>)
    ELSE IF exc = "EdgeFunctionError"
         THEN HttpError(IF c # "NOT_FOUND_ERROR" THEN 500 ELSE 404, c, <<>>)
    ELSE IF exc = "LiteLLMError"
         THEN HttpError(IF c = "RATE_LIMIT_EXCEEDED" THEN 429 ELSE 500, c, <<>>)
    ELSE HttpError(500, "INTERNAL_ERROR", <<>>)

\* a handler that goes on whatever the awaited call gave
AfterCallAlways(o, next) == next

\* where the handler goes after an awaited backend call gave o
AfterCall(o, next) == IF o.act = "return" THEN next ELSE "responded"

\* chat_stream, resumed once: what it hands to event_stream
ChatStreamItem(l) ==
    IF l.k = "yield" THEN Yield(l.frame)
    ELSE IF l.k = "stop" THEN Stop
    ELSE Known(l.code)

\* background_tasks when the add_task call is never reached
ScheduleSaveNever(l, ts, content) == ts

\* background_tasks after chat_stream / the non-streaming branch was resumed:
\* the save is scheduled when the gateway stream ended without an exception
ScheduleSave(l, ts, content) ==
    IF l.k = "stop" THEN Append(ts, content) ELSE ts

\* save_assistant_response whose `except` re-raises after logging
SaveAssistantResponseReraise(o) == IF o.act = "return" THEN "saved" ELSE "raised"

\* save_assistant_response: awaits save_response, and logs any exception
SaveAssistantResponse(o) == IF o.act = "return" THEN "saved" ELSE "logged"

\* the record of a failed gateway call: the status the gateway answered
\* with (0: no answer) and the exception the generator raised
NoGatewayFailure == [status |-> 0, exc |-> "", code |-> ""]
GatewayFailure(g, l) == [status |-> g.status, exc |-> l.exc, code |-> l.code]

\* number of chunk frames the gateway has sent
NChunks == Cardinality({i \in 1..Len(calls) : calls[i] = "gateway.chunk"})

InitB ==
    /\ cpc = "idle"
    /\ stream = FALSE
    /\ profile = [has_balance |-> FALSE, available_balance |-> 0, max_budget |-> 100]
    /\ calls = <<>>
    /\ http = NoHttp
    /\ body = <<>>
    /\ epc = "none"
    /\ gpc = "unopened"
    /\ acc = <<>>
    /\ full_response = <<>>
    /\ tasks = <<>>
    /\ bg = "none"
    /\ gwlast = NoGatewayFailure

\* a request arrives and the dependencies resolve the caller's profile
ChatRequest(s, p) ==
    /\ cpc = "idle"
    /\ cpc' = "gate"
    /\ stream' = s
    /\ profile' = p
    /\ UNCHANGED <<calls, http, body, epc, gpc, acc, full_response, tasks, bg>>
    /\ UNCHANGED gwlast
    /\ UNCHANGED <<varsA, varsX>>

\* verify_user_balance
BalanceGate ==
    /\ cpc = "gate"
    /\ IF BalanceInsufficient(profile)
       THEN /\ http' = BalanceError(profile)
            /\ cpc' = "finished"
       ELSE /\ http' = http
            /\ cpc' = "handler"
    /\ UNCHANGED <<stream, profile, calls, body, epc, gpc, acc, full_response, tasks, bg>>
    /\ UNCHANGED gwlast
    /\ UNCHANGED <<varsA, varsX>>

\* `message_data = await supabase.add_message(...)`: the call is issued
AddMessage ==
    /\ cpc = "handler"
    /\ calls' = Append(calls, "add_message")
    /\ cpc' = "add_message"
    /\ UNCHANGED <<stream, profile, http, body, epc, gpc, acc, full_response, tasks, bg>>
    /\ UNCHANGED gwlast
    /\ UNCHANGED <<varsA, varsX>>

\* add_message returns or raises
AddMessageDone(o) ==
    /\ cpc = "add_message"
    /\ cpc' = AfterCall(o, "build")
    /\ calls' = Append(calls, IF o.act = "return" THEN "add_message.ok" ELSE "add_message.err")
    /\ http' = IF o.act = "return" THEN http ELSE HandlerExcept(o.exc, o.code)
    /\ UNCHANGED <<stream, profile, body, epc, gpc, acc, full_response, tasks, bg>>
    /\ UNCHANGED gwlast
    /\ UNCHANGED <<varsA, varsX>>

\* `context_data = await supabase.build_context(...)`: the call is issued
BuildContext ==
    /\ cpc = "build"
    /\ calls' = Append(calls, "build_context")
    /\ cpc' = "build_context"
    /\ UNCHANGED <<stream, profile, http, body, epc, gpc, acc, full_response, tasks, bg>>
    /\ UNCHANGED gwlast
    /\ UNCHANGED <<varsA, varsX>>

\* build_context returns or raises
BuildContextDone(o) ==
    /\ cpc = "build_context"
    /\ cpc' = AfterCall(o, "llm")
    /\ calls' = Append(calls, IF o.act = "return" THEN "build_context.ok" ELSE "build_context.err")
    /\ http' = IF o.act = "return" THEN http ELSE HandlerExcept(o.exc, o.code)
    /\ UNCHANGED <<stream, profile, body, epc, gpc, acc, full_response, tasks, bg>>
    /\ UNCHANGED gwlast
    /\ UNCHANGED <<varsA, varsX>>

\* request.stream: `return await create_sse_response(chat_stream())`; the
\* response starts, nothing of chat_stream has run yet
StartStreaming ==
    /\ cpc = "llm"
    /\ stream
    /\ http' = SSEResponseStart
    /\ epc' = "iter"
    /\ cpc' = "streaming"
    /\ UNCHANGED <<stream, profile, calls, body, gpc, acc, full_response, tasks, bg>>
    /\ UNCHANGED gwlast
    /\ UNCHANGED <<varsA, varsX>>

\* the log of the gateway call: issued at the first resumption, then what
\* the resumption gave
GatewayLog(l) ==
    (IF gpc = "unopened" THEN <<"gateway">> ELSE <<>>)
    \o <<CASE l.k = "stop" -> "gateway.end"
           [] l.k = "raise" -> "gateway.err"
           [] l.frame.t = "done" -> "gateway.done"
           [] OTHER -> "gateway.chunk">>

\* event_stream asks chat_stream for its next frame, which asks the gateway
\* client for its next chunk
StreamNext(g) ==
    /\ cpc = "streaming"
    /\ epc = "iter"
    /\ LET l == LiteLLMNext(g, acc)
           item == ChatStreamItem(l)
       IN /\ acc' = l.acc
          /\ gpc' = l.gpc
          /\ full_response' = IF l.k = "yield" THEN l.acc ELSE full_response
          /\ tasks' = ScheduleSave(l, tasks, full_response)
          /\ calls' = calls \o GatewayLog(l)
          /\ body' = body \o EventStreamFrames(item)
          /\ epc' = IF item.k = "yield" THEN "iter" ELSE "finally"
          /\ gwlast' = IF l.k = "raise" THEN GatewayFailure(g, l) ELSE gwlast
    /\ UNCHANGED <<cpc, stream, profile, http, bg>>
    /\ UNCHANGED <<varsA, varsX>>

\* the `finally:` of event_stream, which ends the response body
StreamFinally ==
    /\ cpc = "streaming"
    /\ epc = "finally"
    /\ body' = body \o EventStreamFinallyFrames
    /\ epc' = "closed"
    /\ cpc' = "responded"
    /\ UNCHANGED <<stream, profile, calls, http, gpc, acc, full_response, tasks, bg>>
    /\ UNCHANGED gwlast
    /\ UNCHANGED <<varsA, varsX>>

\* not request.stream: the handler starts accumulate_stream(collect_stream())
StartAccumulating ==
    /\ cpc = "llm"
    /\ ~stream
    /\ cpc' = "accumulating"
    /\ UNCHANGED <<stream, profile, calls, http, body, epc, gpc, acc, full_response, tasks, bg>>
    /\ UNCHANGED gwlast
    /\ UNCHANGED <<varsA, varsX>>

\* accumulate_stream takes the next chunk: it adds a delta to its content,
\* stops at [DONE] or at the end of the stream, and lets an exception
\* through to the `except` clauses of the handler
AccumulateNext(g) ==
    /\ cpc = "accumulating"
    /\ g.t # "resume"
    /\ LET l == LiteLLMNext(g, acc)
           ended == [l EXCEPT !.k = "stop"]
           fin == l.k = "stop" \/ (l.k = "yield" /\ l.frame.t = "done")
       IN /\ acc' = l.acc
          /\ gpc' = IF fin THEN "ended" ELSE l.gpc
          /\ full_response' = IF l.k = "yield" THEN full_response \o l.frame.delta
                              ELSE full_response
          /\ calls' = calls \o (IF fin THEN GatewayLog(ended) ELSE GatewayLog(l))
          /\ tasks' = IF fin THEN ScheduleSave(ended, tasks, full_response) ELSE tasks
          /\ http' = IF fin THEN HttpOk
                     ELSE IF l.k = "raise" THEN HandlerExcept(l.exc, l.code)
                     ELSE http
          /\ cpc' = IF fin \/ l.k = "raise" THEN "responded" ELSE "accumulating"
          /\ gwlast' = IF l.k = "raise" THEN GatewayFailure(g, l) ELSE gwlast
    /\ UNCHANGED <<stream, profile, body, epc, bg>>
    /\ UNCHANGED <<varsA, varsX>>

\* the response is complete; the server runs the next background task,
\* which issues save_response
RunBackground ==
    /\ cpc = "responded"
    /\ tasks # <<>>
    /\ calls' = Append(calls, "save_response")
    /\ cpc' = "saving"
    /\ UNCHANGED <<stream, profile, http, body, epc, gpc, acc, full_response, tasks, bg>>
    /\ UNCHANGED gwlast
    /\ UNCHANGED <<varsA, varsX>>

\* save_response returns or raises inside save_assistant_response
SaveDone(o) ==
    /\ cpc = "saving"
    /\ bg' = SaveAssistantResponse(o)
    /\ tasks' = Tail(tasks)
    /\ calls' = Append(calls, IF o.act = "return" THEN "save_response.ok" ELSE "save_response.err")
    /\ cpc' = "finished"
    /\ UNCHANGED <<stream, profile, http, body, epc, gpc, acc, full_response>>
    /\ UNCHANGED gwlast
    /\ UNCHANGED <<varsA, varsX>>

NextChat ==
    \/ \E s \in BOOLEAN, p \in Profiles : ChatRequest(s, p)
    \/ BalanceGate
    \/ AddMessage
    \/ \E o \in EdgeResults : AddMessageDone(o)
    \/ BuildContext
    \/ \E o \in EdgeResults : BuildContextDone(o)
    \/ StartStreaming
    \/ \E g \in GatewayEvents(gpc, NChunks) : StreamNext(g)
    \/ StreamFinally
    \/ StartAccumulating
    \/ \E g \in GatewayEvents(gpc, NChunks) : AccumulateNext(g)
    \/ RunBackground
    \/ \E o \in EdgeResults : SaveDone(o)

(***************************************************************************)
(* create_sse_response around an arbitrary frame generator                 *)
(***************************************************************************)
\* what an arbitrary generator may do when resumed
GeneratorItems ==
    {Yield(ChunkFrame(d)) : d \in Deltas} \cup {Yield(DoneFrame)}
    \cup {Stop, Unknown}
    \cup {Known(c) : c \in {"LITELLM_ERROR", "SERVICE_UNAVAILABLE"}}

\* create_sse_response(generator) is called and the response starts
SSECreate ==
    /\ cpc = "idle"
    /\ epc = "none"
    /\ http' = SSEResponseStart
    /\ epc' = "iter"
    /\ cpc' = "sse"
    /\ UNCHANGED <<stream, profile, calls, body, gpc, acc, full_response, tasks, bg>>
    /\ UNCHANGED gwlast
    /\ UNCHANGED <<varsA, varsX>>

\* event_stream resumes the wrapped generator
SSENext(item) ==
    /\ cpc = "sse"
    /\ epc = "iter"
    /\ item.k = "yield" => Len(body) < MaxFrames
    /\ body' = body \o EventStreamFrames(item)
    /\ epc' = IF item.k = "yield" THEN "iter" ELSE "finally"
    /\ UNCHANGED <<cpc, stream, profile, calls, http, gpc, acc, full_response, tasks, bg>>
    /\ UNCHANGED gwlast
    /\ UNCHANGED <<varsA, varsX>>

\* the `finally:` of event_stream
SSEFinally ==
    /\ cpc = "sse"
    /\ epc = "finally"
    /\ body' = body \o EventStreamFinallyFrames
    /\ epc' = "closed"
    /\ UNCHANGED <<cpc, stream, profile, calls, http, gpc, acc, full_response, tasks, bg>>
    /\ UNCHANGED gwlast
    /\ UNCHANGED <<varsA, varsX>>

NextSSE ==
    \/ SSECreate
    \/ \E item \in GeneratorItems : SSENext(item)
    \/ SSEFinally

(***************************************************************************)
(* Part C. Authentication: utils/errors, AuthService, dependencies         *)
(***************************************************************************)
\* an exception: the class of the raised object and its `code`
Exc(k, c) == [kind |-> k, code |-> c]
NoExc == Exc("none", "")

\* the keyword parameters the __init__ of an exception class accepts
InitParams(k) ==
    CASE k = "AuthenticationError" -> {"message", "code", "details"}
      [] k = "TokenExpiredError" -> {"message"}
      [] k = "InvalidTokenError" -> {"message"}
      [] k = "RateLimitError" ->
            {"message", "retry_after", "limit_type", "current_usage", "limit"}

\* the `code` __init__ gives the instance: the subclasses of
\* AuthenticationError pass their own, RateLimitError passes its own, and
\* AuthenticationError takes the caller's
InitCode(k, c) ==
    CASE k = "TokenExpiredError" -> "TOKEN_EXPIRED"
      [] k = "InvalidTokenError" -> "INVALID_TOKEN"
      [] k = "RateLimitError" -> "RATE_LIMIT_EXCEEDED"
      [] OTHER -> c

\* `raise k(**kw)` with the keyword names kw and code c: the call raises the
\* new instance, or TypeError when __init__ does not take one of the names
New(k, kw, c) ==
    IF kw \subseteq InitParams(k) THEN Exc(k, InitCode(k, c))
    ELSE Exc("TypeError", "")

\* `except AuthenticationError` matches the class and its subclasses
IsAuthenticationError(e) ==
    e.kind \in {"AuthenticationError", "TokenExpiredError", "InvalidTokenError"}

\* `except jwt.JWTError` matches the class and its subclasses
IsJWTError(e) ==
    e.kind \in {"JWTError", "ExpiredSignatureError", "JWTClaimsError"}

\* a token, by what jwt.decode does with it (returns the payload or raises)
\* and by whether the payload has a truthy `sub` and `exp`
Token(n, d, s, x) == [name |-> n, decode |-> d, sub |-> s, exp |-> x]
NoToken == Token("", "none", FALSE, FALSE)

GoodTokens == {Token("good1", "ok", TRUE, TRUE), Token("good2", "ok", TRUE, TRUE)}

Tokens ==
    GoodTokens \cup
    { Token("nosub", "ok", FALSE, TRUE),
      Token("noexp", "ok", TRUE, FALSE),
      Token("expired", "ExpiredSignatureError", TRUE, TRUE),
      Token("badclaims", "JWTClaimsError", TRUE, TRUE),
      Token("badsignature", "JWTError", TRUE, TRUE),
      Token("crash", "Exception", TRUE, TRUE) }

\* an Authorization header: what it starts with and what follows the first
\* seven characters; Header("", NoToken) is the empty header
Header(p, t) == [prefix |-> p, token |-> t]

Headers ==
    { Header("", NoToken), Header("Basic ", NoToken), Header("Bearer ", NoToken) }
    \cup { Header("Bearer ", t) : t \in Tokens }

\* the outcome of a call: what it raised (NoExc: it returned) and the cache
AuthOutcome(e, c) == [exc |-> e, cache |-> c]

\* AuthService.extract_bearer_token: the exception it raises for the header
ExtractBearerToken(h) ==
    IF h = Header("", NoToken)
    THEN New("InvalidTokenError", {"message", "code"}, "MISSING_AUTH_HEADER")
    ELSE IF h.prefix # "Bearer "
    THEN New("InvalidTokenError", {"message", "code"}, "INVALID_AUTH_FORMAT")
    ELSE IF h.token = NoToken
    THEN New("InvalidTokenError", {"message", "code"}, "EMPTY_TOKEN")
    ELSE NoExc

\* the `try:` body of AuthService.decode_jwt
DecodeJwtTry(t, c) ==
    IF t.decode # "ok" THEN AuthOutcome(Exc(t.decode, ""), c)
    ELSE IF ~t.sub
    THEN AuthOutcome(New("InvalidTokenError", {"message", "code"}, "MISSING_SUBJECT"), c)
    ELSE IF ~t.exp
    THEN AuthOutcome(New("InvalidTokenError", {"message", "code"}, "MISSING_EXPIRATION"), c)
    ELSE AuthOutcome(NoExc, c \cup {t})

\* the `except` clauses of AuthService.decode_jwt, in their order, for the
\* exception e of the `try:` body
DecodeJwtExcept(e) ==
    IF e.kind = "ExpiredSignatureError"
    THEN New("TokenExpiredError", {"message", "code"}, "TOKEN_EXPIRED")
    ELSE IF e.kind = "JWTClaimsError"
    THEN New("InvalidTokenError", {"message", "code"}, "INVALID_CLAIMS")
    ELSE IF IsJWTError(e)
    THEN New("InvalidTokenError", {"message", "code"}, "INVALID_TOKEN")
    ELSE New("AuthenticationError", {"message", "code"}, "AUTH_ERROR")

\* AuthService.decode_jwt with the cache c
DecodeJwt(t, c) ==
    IF t \in c THEN AuthOutcome(NoExc, c)
    ELSE LET o == DecodeJwtTry(t, c)
         IN IF o.exc = NoExc THEN o
            ELSE AuthOutcome(DecodeJwtExcept(o.exc), c)

\* AuthService.validate_token_and_get_user
ValidateTokenAndGetUser(h, c) ==
    IF ExtractBearerToken(h) # NoExc THEN AuthOutcome(ExtractBearerToken(h), c)
    ELSE DecodeJwt(h.token, c)

\* what the profile lookup of get_current_user does after the token is
\* accepted: returns the profile or raises
ProfileOutcomes ==
    { NoExc, Exc("EdgeFunctionError", "not found"), Exc("EdgeFunctionError", ""),
      Exc("Exception", "") }

\* error_handling_middleware: the answer to an exception no handler caught
ErrorNetStatus == 500

\* verify_token: the status of the answer when its `try:` body raised e
VerifyTokenExcept(e) ==
    IF IsAuthenticationError(e) THEN 401 ELSE ErrorNetStatus

\* get_current_user: the status of the answer when its `try:` body raised e
GetCurrentUserExcept(e) ==
    IF IsAuthenticationError(e) THEN 401
    ELSE IF e.kind = "EdgeFunctionError"
    THEN (IF e.code = "not found" THEN 403 ELSE 500)
    ELSE 500

\* the status a dependency answers with when its `try:` body raised e
\* (200: nothing was raised, the handler runs)
DependencyStatus(d, e) ==
    IF e = NoExc THEN 200
    ELSE IF d = "verify_token" THEN VerifyTokenExcept(e)
    ELSE GetCurrentUserExcept(e)

Dependencies == {"verify_token", "get_current_user"}

InitC ==
    /\ apc = "idle"
    /\ dep = "verify_token"
    /\ authz = Header("", NoToken)
    /\ tcache = {}
    /\ aexc = NoExc
    /\ ahttp = 0

\* the variables of the other parts
othersC == <<varsA, varsB, varsD, varsE, varsF, varsG, varsH, varsI, varsJ, varsK, varsL, varsM>>

\* a request with the header h arrives at an endpoint that depends on d
AuthRequest(d, h) ==
    /\ apc \in {"idle", "answered"}
    /\ apc' = "called"
    /\ dep' = d
    /\ authz' = h
    /\ aexc' = NoExc
    /\ ahttp' = 0
    /\ UNCHANGED tcache
    /\ UNCHANGED othersC

\* get_current_user finds that the header does not start with "Bearer ":
\* `raise HTTPException(status_code=401)` inside its `try:`
AuthRejectHeader ==
    /\ apc = "called"
    /\ dep = "get_current_user"
    /\ authz.prefix # "Bearer "
    /\ ahttp' = GetCurrentUserExcept(Exc("HTTPException", "401"))
    /\ apc' = "answered"
    /\ UNCHANGED <<dep, authz, tcache, aexc>>
    /\ UNCHANGED othersC

\* the dependency calls auth_service.validate_token_and_get_user
AuthValidate ==
    /\ apc = "called"
    /\ dep = "get_current_user" => authz.prefix = "Bearer "
    /\ LET o == ValidateTokenAndGetUser(authz, tcache)
       IN /\ aexc' = o.exc
          /\ tcache' = o.cache
    /\ apc' = "validated"
    /\ UNCHANGED <<dep, authz, ahttp>>
    /\ UNCHANGED othersC

\* the validation raised, or verify_token returns the payload
AuthAnswer ==
    /\ apc = "validated"
    /\ aexc # NoExc \/ dep = "verify_token"
    /\ ahttp' = DependencyStatus(dep, aexc)
    /\ apc' = "answered"
    /\ UNCHANGED <<dep, authz, tcache, aexc>>
    /\ UNCHANGED othersC

\* get_current_user goes on to look the profile up, with the outcome o
AuthProfile(o) ==
    /\ apc = "validated"
    /\ aexc = NoExc
    /\ dep = "get_current_user"
    /\ ahttp' = DependencyStatus(dep, o)
    /\ apc' = "answered"
    /\ UNCHANGED <<dep, authz, tcache, aexc>>
    /\ UNCHANGED othersC

NextAuth ==
    \/ \E d \in Dependencies, h \in Headers : AuthRequest(d, h)
    \/ AuthRejectHeader
    \/ AuthValidate
    \/ AuthAnswer
    \/ \E o \in ProfileOutcomes : AuthProfile(o)

(***************************************************************************)
(* Part D. CacheService: Redis with an in-memory fallback map              *)
(***************************************************************************)
\* settings.cache_ttl_models, cache_ttl_user_profile, cache_ttl_conversations
cache_ttl_models == 3600
cache_ttl_user_profile == 900
cache_ttl_conversations == 300

\* `ttl = 3600  # Default 1 hour` of CacheService.set
DefaultNamespaceTTL == 3600

\* _cleanup_fallback_cache: `if len(self.fallback_cache) > 1000` and
\* `entries_to_remove = len(self.fallback_cache) - 800`
FallbackMaxSize == 1000
FallbackTrimSize == 800

\* the namespaces callers use; "sessions" stands for any namespace that
\* CacheService.set does not name
Namespaces == {"models", "user_profiles", "conversations", "sessions"}

\* the TTL CacheService.set picks for a namespace when `ttl is None`
NamespaceTTL(ns) ==
    IF ns = "models" THEN cache_ttl_models
    ELSE IF ns = "user_profiles" THEN cache_ttl_user_profile
    ELSE IF ns = "conversations" THEN cache_ttl_conversations
    ELSE DefaultNamespaceTTL

\* the `ttl` argument: <<>> is None, <<t>> is t seconds
ExplicitTTLs == {600}
TTLArgs == {<<>>} \cup {<<t>> : t \in ExplicitTTLs}

\* the TTL of a set call
SetTTL(ns, ttl) == IF ttl = <<>> THEN NamespaceTTL(ns) ELSE ttl[1]

\* the instants of datetime.now() the clock visits, in seconds
Instants == {0, 299, 300, 899, 900, 3599, 3600}

\* the expires_at values an entry can have
Expiries == {i + t : i \in Instants, t \in {NamespaceTTL(ns) : ns \in Namespaces} \cup ExplicitTTLs}

\* _get_cache_key: f"{settings.app_name}:{namespace}:{key}", where the key
\* is f"{kind}:{id}"
CacheKey(ns, kind, id) == [ns |-> ns, kind |-> kind, id |-> id]

\* the keys the model follows one by one: one key in each namespace, and
\* the detail key of each conversation
ServiceKeys == {CacheKey(ns, "item", "k") : ns \in Namespaces}
Conversations == {"c1", "c2"}
ConversationDetailKey(c) == CacheKey("conversations", "conversation_detail", c)
TrackedKeys == ServiceKeys \cup {ConversationDetailKey(c) : c \in Conversations}

\* a key pattern f"{kind}:{id}" in a namespace, where id may be "*";
\* _matches_pattern turns "*" into the regular expression ".*"
Pattern(ns, kind, id) == [ns |-> ns, kind |-> kind, id |-> id]
MatchesPattern(k, p) ==
    k.ns = p.ns /\ k.kind = p.kind /\ (p.id = "*" \/ p.id = k.id)

\* an entry {"value", "expires_at"}; values are positive numbers
Entry(v, e) == [value |-> v, expires_at |-> e]
NoEntry == [value |-> 0, expires_at |-> 0]

\* the fallback map without the followed keys: the number of other entries
\* by expires_at
EmptyBulk == [e \in Expiries |-> 0]
Fill(e, n) == [x \in Expiries |-> IF x = e THEN n ELSE 0]

RECURSIVE SumOver(_, _)
SumOver(f, S) ==
    IF S = {} THEN 0
    ELSE LET x == CHOOSE y \in S : TRUE IN f[x] + SumOver(f, S \ {x})

\* the CacheService object: redis_available, the content of the Redis
\* server, and fallback_cache (followed keys and the bulk of other keys)
NoKeys == [k \in TrackedKeys |-> NoEntry]
NewCache == [redis_available |-> FALSE, redis |-> NoKeys,
             fallback_cache |-> NoKeys, bulk |-> EmptyBulk]

\* len(self.fallback_cache)
FallbackSize(c) ==
    Cardinality({k \in TrackedKeys : c.fallback_cache[k] # NoEntry})
    + SumOver(c.bulk, Expiries)

\* the entries of the fallback map with expires_at below e, and up to e
CountBelow(c, e) ==
    Cardinality({k \in TrackedKeys : c.fallback_cache[k] # NoEntry
                                     /\ c.fallback_cache[k].expires_at < e})
    + SumOver(c.bulk, {x \in Expiries : x < e})
CountUpTo(c, e) ==
    Cardinality({k \in TrackedKeys : c.fallback_cache[k] # NoEntry
                                     /\ c.fallback_cache[k].expires_at <= e})
    + SumOver(c.bulk, {x \in Expiries : x <= e})

\* the smallest and the largest expires_at in the fallback map
\* (0 and 0 when the map is empty)
FallbackExpiries(c) ==
    {c.fallback_cache[k].expires_at : k \in {x \in TrackedKeys : c.fallback_cache[x] # NoEntry}}
    \cup {e \in Expiries : c.bulk[e] > 0}
MinExpiry(c) ==
    IF FallbackExpiries(c) = {} THEN 0
    ELSE CHOOSE e \in FallbackExpiries(c) : \A x \in FallbackExpiries(c) : e <= x

\* `datetime.now() < entry["expires_at"]` with a strict comparison replaced
FallbackLiveInclusive(e, t) == t <= e.expires_at

\* `datetime.now() < entry["expires_at"]`
FallbackLive(e, t) == t < e.expires_at

\* the Redis server holds a key until its TTL has passed
RedisLive(c, k, t) == c.redis[k] # NoEntry /\ t < c.redis[k].expires_at

\* _cleanup_fallback_cache, first loop: the expired entries are deleted
DropExpired(c, t) ==
    [c EXCEPT !.fallback_cache =
                  [k \in TrackedKeys |->
                      IF c.fallback_cache[k] # NoEntry /\ t >= c.fallback_cache[k].expires_at
                      THEN NoEntry ELSE c.fallback_cache[k]],
              !.bulk = [e \in Expiries |-> IF t >= e THEN 0 ELSE c.bulk[e]]]

\* a trim that leaves one entry more than the code does
TrimCountOffByOne(c) == FallbackSize(c) - (FallbackTrimSize + 1)

\* `entries_to_remove = len(self.fallback_cache) - 800`
TrimCount(c) == FallbackSize(c) - FallbackTrimSize

\* _cleanup_fallback_cache, the size limit: the first TrimCount entries in
\* the order of expires_at are deleted.  Entries with the same expires_at
\* are deleted in the order they were inserted, which the bulk does not
\* record: every choice among them is a result.
Trim(c) ==
    LET r == TrimCount(c)
        cut == CHOOSE e \in FallbackExpiries(c) :
                   /\ CountUpTo(c, e) >= r
                   /\ \A x \in FallbackExpiries(c) : CountUpTo(c, x) >= r => e <= x
        need == r - CountBelow(c, cut)
        tied == {k \in TrackedKeys : c.fallback_cache[k] # NoEntry
                                     /\ c.fallback_cache[k].expires_at = cut}
    IN { [c EXCEPT !.fallback_cache =
                       [k \in TrackedKeys |->
                           IF c.fallback_cache[k] # NoEntry
                              /\ (c.fallback_cache[k].expires_at < cut \/ k \in S)
                           THEN NoEntry ELSE c.fallback_cache[k]],
                   !.bulk = [e \in Expiries |->
                                IF e < cut THEN 0
                                ELSE IF e = cut
                                     THEN c.bulk[e] - (need - Cardinality(S))
                                     ELSE c.bulk[e]]]
         : S \in {T \in SUBSET tied : /\ Cardinality(T) <= need
                                      /\ need - Cardinality(T) <= (IF cut \in Expiries THEN c.bulk[cut] ELSE 0)} }

\* _cleanup_fallback_cache: the caches it can leave
CleanupFallbackCache(c, t) ==
    IF FallbackSize(DropExpired(c, t)) > FallbackMaxSize
    THEN Trim(DropExpired(c, t))
    ELSE {DropExpired(c, t)}

\* what the backend or the body of an operation does in one call: works,
\* the Redis call raises, or the body itself raises
Faults == {"ok", "redis_error", "op_error"}

\* the Redis call of an operation raises
RedisRaises(c, f) == c.redis_available /\ f = "redis_error"

\* the result of an operation: whether an exception left it, the value it
\* returned (0 is None or False, 1 is True), and the cache it leaves
CacheResult(r, v, c) == [raised |-> r, value |-> v, cache |-> c]

\* an operation without its `except Exception:` clause
CacheExceptNothing(o, c, miss) == o

\* the `except Exception:` clause of an operation: the error is logged and
\* the miss or no-op value is returned
CacheExcept(o, c, miss) ==
    IF o.raised THEN CacheResult(FALSE, miss, o.cache) ELSE o

\* the `try:` body of CacheService.get
CacheGetTry(c, k, f, t) ==
    IF RedisRaises(c, f) THEN CacheResult(TRUE, 0, c)
    ELSE IF c.redis_available /\ RedisLive(c, k, t)
    THEN CacheResult(FALSE, c.redis[k].value, c)
    ELSE IF c.fallback_cache[k] # NoEntry
    THEN (IF FallbackLive(c.fallback_cache[k], t)
          THEN CacheResult(FALSE, c.fallback_cache[k].value, c)
          ELSE CacheResult(FALSE, 0, [c EXCEPT !.fallback_cache[k] = NoEntry]))
    ELSE CacheResult(FALSE, 0, c)

\* CacheService.get
CacheGet(c, k, f, t) == CacheExcept(CacheGetTry(c, k, f, t), c, 0)

\* the `try:` body of CacheService.set for a followed key: the results
CacheSetTry(c, k, v, ttl, f, t) ==
    IF f = "op_error" \/ RedisRaises(c, f) THEN {CacheResult(TRUE, 0, c)}
    ELSE IF c.redis_available
    THEN {CacheResult(FALSE, 1, [c EXCEPT !.redis[k] = Entry(v, t + SetTTL(k.ns, ttl))])}
    ELSE {CacheResult(FALSE, 1, c2) :
            c2 \in CleanupFallbackCache(
                      [c EXCEPT !.fallback_cache[k] = Entry(v, t + SetTTL(k.ns, ttl))], t)}

\* CacheService.set
CacheSet(c, k, v, ttl, f, t) ==
    {CacheExcept(o, c, 0) : o \in CacheSetTry(c, k, v, ttl, f, t)}

\* CacheService.set in fallback mode for a key that is not followed and not
\* in the map
CacheSetOther(c, ns, ttl, t) ==
    {CacheResult(FALSE, 1, c2) :
        c2 \in CleanupFallbackCache(
                  [c EXCEPT !.bulk[t + SetTTL(ns, ttl)] = @ + 1], t)}

\* the `try:` body of CacheService.delete
CacheDeleteTry(c, k, f, t) ==
    IF RedisRaises(c, f) THEN CacheResult(TRUE, 0, c)
    ELSE LET inRedis == c.redis_available /\ RedisLive(c, k, t)
             c1 == IF c.redis_available THEN [c EXCEPT !.redis[k] = NoEntry] ELSE c
         IN CacheResult(FALSE,
                        IF inRedis \/ c.fallback_cache[k] # NoEntry THEN 1 ELSE 0,
                        [c1 EXCEPT !.fallback_cache[k] = NoEntry])

\* CacheService.delete
CacheDelete(c, k, f, t) == CacheExcept(CacheDeleteTry(c, k, f, t), c, 0)

\* the `try:` body of CacheService.delete_pattern
CacheDeletePatternTry(c, p, f, t) ==
    IF f = "op_error" \/ RedisRaises(c, f) THEN CacheResult(TRUE, 0, c)
    ELSE LET inRedis == IF c.redis_available
                        THEN {k \in TrackedKeys : RedisLive(c, k, t) /\ MatchesPattern(k, p)}
                        ELSE {}
             inMap == {k \in TrackedKeys : c.fallback_cache[k] # NoEntry /\ MatchesPattern(k, p)}
         IN CacheResult(FALSE, Cardinality(inRedis) + Cardinality(inMap),
                [c EXCEPT !.redis = [k \in TrackedKeys |->
                                        IF k \in inRedis THEN NoEntry ELSE c.redis[k]],
                          !.fallback_cache = [k \in TrackedKeys |->
                                        IF k \in inMap THEN NoEntry ELSE c.fallback_cache[k]]])

\* CacheService.delete_pattern
CacheDeletePattern(c, p, f, t) ==
    CacheExcept(CacheDeletePatternTry(c, p, f, t), c, 0)

\* the `try:` body of CacheService.exists
CacheExistsTry(c, k, f, t) ==
    IF RedisRaises(c, f) THEN CacheResult(TRUE, 0, c)
    ELSE IF c.redis_available
    THEN CacheResult(FALSE, IF RedisLive(c, k, t) THEN 1 ELSE 0, c)
    ELSE IF c.fallback_cache[k] # NoEntry
    THEN (IF FallbackLive(c.fallback_cache[k], t)
          THEN CacheResult(FALSE, 1, c)
          ELSE CacheResult(FALSE, 0, [c EXCEPT !.fallback_cache[k] = NoEntry]))
    ELSE CacheResult(FALSE, 0, c)

\* CacheService.exists
CacheExists(c, k, f, t) == CacheExcept(CacheExistsTry(c, k, f, t), c, 0)

\* the `try:` body of CacheService.get_ttl (-1 is None)
CacheGetTtlTry(c, k, f, t) ==
    IF RedisRaises(c, f) THEN CacheResult(TRUE, -1, c)
    ELSE IF c.redis_available
    THEN CacheResult(FALSE,
                     IF RedisLive(c, k, t) THEN c.redis[k].expires_at - t ELSE -1, c)
    ELSE IF c.fallback_cache[k] # NoEntry
    THEN CacheResult(FALSE,
                     IF c.fallback_cache[k].expires_at - t > 0
                     THEN c.fallback_cache[k].expires_at - t ELSE 0, c)
    ELSE CacheResult(FALSE, -1, c)

\* CacheService.get_ttl
CacheGetTtl(c, k, f, t) == CacheExcept(CacheGetTtlTry(c, k, f, t), c, -1)

\* the largest expires_at among the entries of d that c does not hold any
\* more (0 when c holds them all)
MaxRemoved(d, c) ==
    LET gone == {d.fallback_cache[k].expires_at :
                    k \in {x \in TrackedKeys : d.fallback_cache[x] # NoEntry
                                               /\ c.fallback_cache[x] = NoEntry}}
                \cup {e \in Expiries : c.bulk[e] < d.bulk[e]}
    IN IF gone = {} THEN 0
       ELSE CHOOSE e \in gone : \A x \in gone : x <= e

\* what a write did to the fallback map: its size after the insertion,
\* after the expired entries were deleted, and at the end; the largest
\* expires_at the size limit removed and the smallest it kept
NoWrite == [inserted |-> 0, live |-> 0, size |-> 0, maxremoved |-> 0, minkept |-> 0]
WriteStats(ins, t, c) ==
    [inserted |-> FallbackSize(ins),
     live |-> FallbackSize(DropExpired(ins, t)),
     size |-> FallbackSize(c),
     maxremoved |-> MaxRemoved(DropExpired(ins, t), c),
     minkept |-> MinExpiry(c)]

\* the operation that completed last at the current instant
\* (and what the backend or the body did during it)
Done(op, f, o, w) ==
    [op |-> op, fault |-> f, raised |-> o.raised, value |-> o.value, write |-> w]
NoOp(op) ==
    [op |-> op, fault |-> "ok", raised |-> FALSE, value |-> 0, write |-> NoWrite]

\* the last set of the run's key in fallback mode: when it was made, whether
\* it left the TTL to the namespace, and what removed the entry since
\* ("no": nothing, "caller": a delete or an overwrite, "trim": the size limit)
NoHistory == [written |-> FALSE, at |-> 0, default |-> FALSE, removed |-> "no"]

\* the sizes of the fallback map the run can start from
FillSizes == {FallbackMaxSize - 1, FallbackMaxSize}
FillNamespaces == {"conversations", "models"}

\* largest number of writes of other keys in one run
MaxOtherWrites == 1

InitD ==
    /\ now = 0
    /\ cache = NewCache
    /\ ckey = CacheKey("conversations", "item", "k")
    /\ cres = NoOp("new")
    /\ hist = NoHistory
    /\ nwrites = 0

\* the variables of the other parts
othersD == <<varsA, varsB, varsC, varsE, varsF, varsG, varsH, varsI, varsJ, varsK, varsL, varsM>>

\* CacheService.initialize finds Redis (up) or not; the callers of this run
\* use the key k
CacheInitialize(up, k) ==
    /\ cres.op = "new"
    /\ cache' = [cache EXCEPT !.redis_available = up]
    /\ ckey' = k
    /\ cres' = NoOp("initialize")
    /\ UNCHANGED <<now, hist, nwrites>>
    /\ UNCHANGED othersD

\* earlier requests wrote n other keys of namespace ns at this instant in
\* fallback mode
CacheFill(ns, n) ==
    /\ cres.op = "initialize"
    /\ ~cache.redis_available
    /\ cache' = [cache EXCEPT !.bulk = Fill(now + NamespaceTTL(ns), n)]
    /\ cres' = NoOp("fill")
    /\ UNCHANGED <<now, ckey, hist, nwrites>>
    /\ UNCHANGED othersD

\* the clock moves on to a later instant
CacheTick(t) ==
    /\ cres.op # "new"
    /\ t > now
    /\ now' = t
    /\ cres' = NoOp("tick")
    /\ UNCHANGED <<cache, ckey, hist, nwrites>>
    /\ UNCHANGED othersD

OpGet(f) ==
    /\ cres.op # "new"
    /\ LET o == CacheGet(cache, ckey, f, now)
       IN /\ cache' = o.cache
          /\ cres' = Done("get", f, o, NoWrite)
    /\ UNCHANGED <<now, ckey, hist, nwrites>>
    /\ UNCHANGED othersD

OpSet(v, ttl, f) ==
    /\ cres.op # "new"
    /\ \E o \in CacheSet(cache, ckey, v, ttl, f, now) :
          LET ins == [cache EXCEPT !.fallback_cache[ckey] =
                                       Entry(v, now + SetTTL(ckey.ns, ttl))]
              wrote == ~cache.redis_available /\ o.value = 1
          IN /\ cache' = o.cache
             /\ cres' = Done("set", f, o, IF wrote THEN WriteStats(ins, now, o.cache)
                                       ELSE NoWrite)
             /\ hist' = IF wrote
                        THEN [written |-> TRUE, at |-> now, default |-> ttl = <<>>,
                              removed |-> IF o.cache.fallback_cache[ckey] = NoEntry
                                          THEN "trim" ELSE "no"]
                        ELSE hist
    /\ UNCHANGED <<now, ckey, nwrites>>
    /\ UNCHANGED othersD

OpSetOther(ns) ==
    /\ cres.op # "new"
    /\ ~cache.redis_available
    /\ nwrites < MaxOtherWrites
    /\ nwrites' = nwrites + 1
    /\ \E o \in CacheSetOther(cache, ns, <<>>, now) :
          LET ins == [cache EXCEPT !.bulk[now + SetTTL(ns, <<>>)] = @ + 1]
          IN /\ cache' = o.cache
             /\ cres' = Done("set_other", "ok", o, WriteStats(ins, now, o.cache))
             /\ hist' = IF /\ cache.fallback_cache[ckey] # NoEntry
                           /\ FallbackLive(cache.fallback_cache[ckey], now)
                           /\ o.cache.fallback_cache[ckey] = NoEntry
                        THEN [hist EXCEPT !.removed = "trim"]
                        ELSE hist
    /\ UNCHANGED <<now, ckey>>
    /\ UNCHANGED othersD

OpDelete(f) ==
    /\ cres.op # "new"
    /\ LET o == CacheDelete(cache, ckey, f, now)
       IN /\ cache' = o.cache
          /\ cres' = Done("delete", f, o, NoWrite)
          /\ hist' = IF cache.fallback_cache[ckey] # NoEntry
                        /\ o.cache.fallback_cache[ckey] = NoEntry
                     THEN [hist EXCEPT !.removed = "caller"] ELSE hist
    /\ UNCHANGED <<now, ckey, nwrites>>
    /\ UNCHANGED othersD

OpDeletePattern(id, f) ==
    /\ cres.op # "new"
    /\ LET o == CacheDeletePattern(cache, Pattern(ckey.ns, ckey.kind, id), f, now)
       IN /\ cache' = o.cache
          /\ cres' = Done("delete_pattern", f, o, NoWrite)
          /\ hist' = IF cache.fallback_cache[ckey] # NoEntry
                        /\ o.cache.fallback_cache[ckey] = NoEntry
                     THEN [hist EXCEPT !.removed = "caller"] ELSE hist
    /\ UNCHANGED <<now, ckey, nwrites>>
    /\ UNCHANGED othersD

OpExists(f) ==
    /\ cres.op # "new"
    /\ LET o == CacheExists(cache, ckey, f, now)
       IN /\ cache' = o.cache
          /\ cres' = Done("exists", f, o, NoWrite)
    /\ UNCHANGED <<now, ckey, hist, nwrites>>
    /\ UNCHANGED othersD

OpGetTtl(f) ==
    /\ cres.op # "new"
    /\ LET o == CacheGetTtl(cache, ckey, f, now)
       IN /\ cache' = o.cache
          /\ cres' = Done("get_ttl", f, o, NoWrite)
    /\ UNCHANGED <<now, ckey, hist, nwrites>>
    /\ UNCHANGED othersD

\* the callers of CacheService with either tier and a failing backend
NextCache ==
    \/ \E up \in BOOLEAN : CacheInitialize(up, CacheKey("conversations", "item", "k"))
    \/ \E t \in Instants : CacheTick(t)
    \/ \E f \in Faults : OpGet(f)
    \/ \E ttl \in TTLArgs, f \in Faults : OpSet(1, ttl, f)
    \/ \E f \in Faults : OpDelete(f)
    \/ \E id \in {"k", "*", "j"}, f \in Faults : OpDeletePattern(id, f)
    \/ \E f \in Faults : OpExists(f)
    \/ \E f \in Faults : OpGetTtl(f)

\* the callers of CacheService in fallback mode, with a full map
NextFallback ==
    \/ \E k \in ServiceKeys : CacheInitialize(FALSE, k)
    \/ \E ns \in FillNamespaces, n \in FillSizes : CacheFill(ns, n)
    \/ \E t \in Instants : CacheTick(t)
    \/ OpGet("ok")
    \/ OpSet(1, <<>>, "ok")
    \/ \E ns \in FillNamespaces : OpSetOther(ns)
    \/ OpDelete("ok")

(***************************************************************************)
(* Part E. The conversation, branch and message routers and the cached     *)
(*         conversation detail                                             *)
(***************************************************************************)
\* largest number of successful mutations of one conversation
MaxMutations == 1

\* the handlers of the three routers that change a conversation, its
\* branches or its messages
Mutations ==
    { "update_conversation", "delete_conversation", "batch_conversation_operations",
      "create_branch", "activate_branch", "update_branch", "delete_branch",
      "merge_branch", "edit_message", "regenerate_message", "delete_message",
      "copy_message", "toggle_message_bookmark", "batch_message_operations" }

\* the handlers of routers/conversations.py that delete
\* conversation_detail:{id} of the conversation they changed, after a
\* successful backend call
ConversationsInvalidate ==
    {"update_conversation", "delete_conversation", "batch_conversation_operations"}

\* the handlers of routers/branches.py that do; update_branch deletes only
\* branch_detail:{branch_id} and conversation_branches:{id}:*
BranchesInvalidate ==
    {"create_branch", "activate_branch", "delete_branch", "merge_branch"}

\* whether the handler m of routers/messages.py does: the edit, regenerate
\* and delete handlers when the response data carries a conversation_id
\* (cid), copy_message for its target conversation, the bookmark toggle and
\* the batch operation never
MessagesInvalidate(m, cid) ==
    CASE m \in {"edit_message", "regenerate_message", "delete_message"} -> cid
      [] m = "copy_message" -> TRUE
      [] OTHER -> FALSE

\* whether the handler m deletes the cached detail of its conversation
InvalidatesDetail(m, cid) ==
    \/ m \in ConversationsInvalidate
    \/ m \in BranchesInvalidate
    \/ MessagesInvalidate(m, cid)

\* the authenticated callers
Users == {"u1", "u2"}

\* the conversations for which the backend, given the caller's token,
\* answers a GET with success: those of the caller
Authorised == [u \in Users |-> IF u = "u1" THEN Conversations ELSE {}]

\* the backend: which conversations exist, and the version of their data
NewBackend == [exists |-> [c \in Conversations |-> TRUE],
               ver |-> [c \in Conversations |-> 0]]

\* the record of the calls: the number of successful mutating calls on a
\* conversation that have returned, whether a successful DELETE of it has
\* returned, and how many had returned when its cached detail was written
NewLog == [completed |-> [c \in Conversations |-> 0],
           deleted |-> [c \in Conversations |-> FALSE],
           wepoch |-> [c \in Conversations |-> 0]]

\* a GET /v1/conversations/{id} in flight: its position, the id, the
\* caller, the `completed` and `deleted` of the id when it began, whether
\* its cache get hit, the version it read from the backend, and what it
\* answered from
IdleRead == [pc |-> "idle", conv |-> "c1", user |-> "u1",
             start |-> 0, afterdelete |-> FALSE,
             hit |-> FALSE, fetched |-> 0, from |-> "", value |-> 0]

\* a mutating call in flight: its position, the handler, the ids it
\* changes, and whether the handler goes on to delete the cached detail
IdleWrite == [pc |-> "idle", kind |-> "", convs |-> {}, invalidate |-> FALSE]

\* the response of the backend cached for version v of the data
CachedResponse(v) == v + 1

\* the deletes of conversation_detail:{id} for the ids cs, where the Redis
\* call of the delete for id c does fs[c]
RECURSIVE DeleteDetails(_, _, _, _)
DeleteDetails(c, cs, fs, t) ==
    IF cs = {} THEN c
    ELSE LET x == CHOOSE y \in cs : TRUE
         IN DeleteDetails(CacheDelete(c, ConversationDetailKey(x), fs[x], t).cache,
                          cs \ {x}, fs, t)

InitE ==
    /\ redis_enabled = FALSE
    /\ backend = NewBackend
    /\ log = NewLog
    /\ rd = IdleRead
    /\ wr = IdleWrite

\* the variables of the other parts
othersE == <<varsA, varsB, varsC, varsF, varsG, varsH, varsI, varsJ, varsK, varsL, varsM>>

\* the service starts with settings.redis_enabled = enabled; when it is
\* enabled CacheService.initialize finds Redis (up) or not
ConvStart(enabled, up) ==
    /\ cres.op = "new"
    /\ up => enabled
    /\ redis_enabled' = enabled
    /\ cache' = [cache EXCEPT !.redis_available = up]
    /\ cres' = NoOp("initialize")
    /\ UNCHANGED <<backend, log, rd, wr>>
    /\ UNCHANGED <<now, ckey, hist, nwrites>>
    /\ UNCHANGED othersE

\* GET /v1/conversations/{c} of the authenticated caller u arrives
ReadStart(c, u) ==
    /\ cres.op # "new"
    /\ rd.pc \in {"idle", "done"}
    /\ rd' = [IdleRead EXCEPT !.pc = "get", !.conv = c, !.user = u,
                              !.start = log.completed[c],
                              !.afterdelete = log.deleted[c]]
    /\ UNCHANGED <<redis_enabled, backend, log, wr>>
    /\ UNCHANGED varsD
    /\ UNCHANGED othersE

\* get_conversation: `if settings.redis_enabled:` cache get, and the cached
\* result is returned when there is one
ReadCache(f) ==
    /\ rd.pc = "get"
    /\ LET o == CacheGet(cache, ConversationDetailKey(rd.conv), f, now)
       IN IF redis_enabled
          THEN /\ cache' = o.cache
               /\ cres' = Done("get", f, o, NoWrite)
               /\ rd' = IF o.value # 0
                        THEN [rd EXCEPT !.pc = "done", !.hit = TRUE,
                                        !.from = "cache", !.value = o.value]
                        ELSE [rd EXCEPT !.pc = "fetch"]
          ELSE /\ rd' = [rd EXCEPT !.pc = "fetch"]
               /\ UNCHANGED <<cache, cres>>
    /\ UNCHANGED <<redis_enabled, backend, log, wr>>
    /\ UNCHANGED <<now, ckey, hist, nwrites>>
    /\ UNCHANGED othersE

\* get_conversation: proxy_request, with the caller's token, returns the
\* detail (ok, the conversation exists and is the caller's) or raises
ReadFetch(ok) ==
    /\ rd.pc = "fetch"
    /\ rd' = IF ok /\ backend.exists[rd.conv] /\ rd.conv \in Authorised[rd.user]
             THEN [rd EXCEPT !.pc = "store",
                             !.fetched = CachedResponse(backend.ver[rd.conv])]
             ELSE [rd EXCEPT !.pc = "done", !.from = "error"]
    /\ UNCHANGED <<redis_enabled, backend, log, wr>>
    /\ UNCHANGED varsD
    /\ UNCHANGED othersE

\* get_conversation: `if settings.redis_enabled and response.get("success")`
\* the response is cached with ttl=settings.cache_ttl_conversations, and
\* returned
ReadStore(f) ==
    /\ rd.pc = "store"
    /\ rd' = [rd EXCEPT !.pc = "done", !.from = "backend", !.value = rd.fetched]
    /\ IF redis_enabled
       THEN \E o \in CacheSet(cache, ConversationDetailKey(rd.conv), rd.fetched,
                              <<cache_ttl_conversations>>, f, now) :
               /\ cache' = o.cache
               /\ cres' = Done("set", f, o, NoWrite)
               /\ log' = IF o.value = 1
                         THEN [log EXCEPT !.wepoch[rd.conv] = log.completed[rd.conv]]
                         ELSE log
       ELSE UNCHANGED <<cache, cres, log>>
    /\ UNCHANGED <<redis_enabled, backend, wr>>
    /\ UNCHANGED <<now, ckey, hist, nwrites>>
    /\ UNCHANGED othersE

\* a mutating request for the handler m arrives, on the conversations cs
WriteStart(m, cs) ==
    /\ cres.op # "new"
    /\ wr.pc \in {"idle", "done"}
    /\ Cardinality(cs) > 1 => m = "batch_conversation_operations"
    /\ wr' = [IdleWrite EXCEPT !.pc = "call", !.kind = m, !.convs = cs]
    /\ UNCHANGED <<redis_enabled, backend, log, rd>>
    /\ UNCHANGED varsD
    /\ UNCHANGED othersE

\* the handler's proxy_request returns success (ok and the conversations
\* exist), with or without a conversation_id in its data (cid), or fails
WriteBackend(ok, cid) ==
    /\ wr.pc = "call"
    /\ IF ok /\ \A c \in wr.convs : backend.exists[c] /\ backend.ver[c] < MaxMutations
       THEN /\ backend' =
                 [exists |-> [c \in Conversations |->
                                 IF c \in wr.convs /\ wr.kind = "delete_conversation"
                                 THEN FALSE ELSE backend.exists[c]],
                  ver |-> [c \in Conversations |->
                                 IF c \in wr.convs THEN backend.ver[c] + 1
                                 ELSE backend.ver[c]]]
            /\ wr' = [wr EXCEPT !.pc = "invalidate",
                                !.invalidate = redis_enabled /\ InvalidatesDetail(wr.kind, cid)]
       ELSE /\ wr' = [wr EXCEPT !.pc = "done"]
            /\ UNCHANGED backend
    /\ UNCHANGED <<redis_enabled, log, rd>>
    /\ UNCHANGED varsD
    /\ UNCHANGED othersE

\* the handler deletes the cache entries it names and returns the response
WriteInvalidate(fs) ==
    /\ wr.pc = "invalidate"
    /\ cache' = IF wr.invalidate THEN DeleteDetails(cache, wr.convs, fs, now)
                ELSE cache
    /\ log' = [log EXCEPT
                 !.completed = [c \in Conversations |->
                                   IF c \in wr.convs THEN log.completed[c] + 1
                                   ELSE log.completed[c]],
                 !.deleted = [c \in Conversations |->
                                   IF c \in wr.convs /\ wr.kind = "delete_conversation"
                                   THEN TRUE ELSE log.deleted[c]]]
    /\ wr' = [wr EXCEPT !.pc = "done"]
    /\ cres' = NoOp("delete")
    /\ UNCHANGED <<redis_enabled, backend, rd>>
    /\ UNCHANGED <<now, ckey, hist, nwrites>>
    /\ UNCHANGED othersE

\* the requests of one reader and one writer of conversation c1, the writer
\* also in one batch with c2, with a Redis that may fail
NextConv ==
    \/ \E enabled \in BOOLEAN, up \in BOOLEAN : ConvStart(enabled, up)
    \/ \E t \in {299, 300} : CacheTick(t)
    \/ ReadStart("c1", "u1")
    \/ \E f \in {"ok", "redis_error"} : ReadCache(f)
    \/ \E ok \in BOOLEAN : ReadFetch(ok)
    \/ \E f \in {"ok", "redis_error"} : ReadStore(f)
    \/ \E m \in Mutations, cs \in {{"c1"}, {"c1", "c2"}} : WriteStart(m, cs)
    \/ \E ok \in BOOLEAN, cid \in BOOLEAN : WriteBackend(ok, cid)
    \/ \E fs \in [Conversations -> {"ok", "redis_error"}] : WriteInvalidate(fs)

\* the GETs of the two callers, one after the other, with no writer
NextShare ==
    \/ \E enabled \in BOOLEAN, up \in BOOLEAN : ConvStart(enabled, up)
    \/ \E t \in {299, 300} : CacheTick(t)
    \/ \E c \in Conversations, u \in Users : ReadStart(c, u)
    \/ \E f \in {"ok", "redis_error"} : ReadCache(f)
    \/ \E ok \in BOOLEAN : ReadFetch(ok)
    \/ \E f \in {"ok", "redis_error"} : ReadStore(f)

\* the GETs of the owner of conversation c1 and its PATCHes, interleaved,
\* with a cache that does not fail
NextRace ==
    \/ \E enabled \in BOOLEAN, up \in BOOLEAN : ConvStart(enabled, up)
    \/ \E t \in {299, 300} : CacheTick(t)
    \/ ReadStart("c1", "u1")
    \/ ReadCache("ok")
    \/ \E ok \in BOOLEAN : ReadFetch(ok)
    \/ ReadStore("ok")
    \/ WriteStart("update_conversation", {"c1"})
    \/ \E ok \in BOOLEAN, cid \in BOOLEAN : WriteBackend(ok, cid)
    \/ WriteInvalidate([c \in Conversations |-> "ok"])

(***************************************************************************)
(* Part F. The http middleware stack of the application                    *)
(***************************************************************************)
\* main.py: the functions passed to app.middleware("http"), in the order
\* of the calls
Registered ==
    << "error_handling_middleware", "security_headers_middleware",
       "add_request_id_middleware", "logging_middleware" >>

\* app.middleware("http")(f) is add_middleware, which inserts at the front
\* of the list of user middleware
AddMiddleware(stack, f) == <<f>> \o stack

\* the list of user middleware after the calls for the functions of fs
RECURSIVE UserMiddleware(_)
UserMiddleware(fs) ==
    IF fs = <<>> THEN <<>>
    ELSE AddMiddleware(UserMiddleware(SubSeq(fs, 1, Len(fs) - 1)), fs[Len(fs)])

\* the stack a request passes, outermost first: the server-error
\* middleware of the framework is outside of it (depth 0), the exception
\* middleware and the route handler are inside of it (depth Len + 1)
Stack == UserMiddleware(Registered)

HandlerDepth == Len(Stack) + 1

\* the uuid4 values of add_request_id_middleware
RequestIds == {"r1", "r2", "r3"}

\* the statuses of the HTTPException a route handler raises
HandlerStatuses == {400, 401, 403, 404, 422, 500}

\* the outcomes of a route handler
HandlerOutcomes == {"return", "http_exception", "exception"}

\* the middleware functions whose body wraps call_next in
\* `try: ... except Exception`
Catches(f) == f = "error_handling_middleware"

\* the middleware functions that run code before call_next
RunsBefore(f) == f \in {"add_request_id_middleware", "logging_middleware"}

\* the middleware functions that run code on the response of call_next
RunsAfter(f) ==
    f \in {"security_headers_middleware", "add_request_id_middleware",
           "logging_middleware"}

\* the depth of the middleware that catches an exception raised at depth
\* d: the innermost catching one outside of d, or 0 for the server-error
\* middleware
Catcher(d) ==
    LET js == {j \in 1..Len(Stack) : j < d /\ Catches(Stack[j])}
    IN IF js = {} THEN 0 ELSE CHOOSE j \in js : \A k \in js : k <= j

NoResponse ==
    [status |-> 0, body |-> "", request_id |-> "", x_request_id |-> "",
     security_headers |-> FALSE, by |-> ""]

\* error_handling_middleware: JSONResponse(status_code=500, content={error,
\* request_id, code}) with the request id it read before call_next
ErrorNetResponse(rid) ==
    [NoResponse EXCEPT !.status = ErrorNetStatus, !.body = "json",
                       !.request_id = rid, !.by = "error_handling_middleware"]

\* the server-error middleware answers 500 text/plain and raises again
ServerErrorResponse ==
    [NoResponse EXCEPT !.status = 500, !.body = "plain",
                       !.by = "ServerErrorMiddleware"]

\* a request outside of the stack
IdleNet ==
    [pc |-> "idle", at |-> 0, state_request_id |-> "unknown",
     logged_request_id |-> "", net_request_id |-> "", raised |-> "",
     resp |-> NoResponse]

\* the request n after an exception was raised at depth d by origin
Propagate(n, d, origin) ==
    LET j == Catcher(d)
    IN IF j = 0
       THEN [n EXCEPT !.pc = "done", !.at = 0, !.raised = origin,
                      !.resp = ServerErrorResponse]
       ELSE [n EXCEPT !.pc = IF j = 1 THEN "done" ELSE "out", !.at = j - 1,
                      !.raised = origin,
                      !.resp = ErrorNetResponse(n.net_request_id)]

InitF == net = IdleNet

\* the variables of the other parts
othersF == <<varsA, varsB, varsC, varsD, varsE, varsH, varsI, varsJ, varsK, varsL, varsM>>

\* a request reaches the outermost user middleware
NetRequest ==
    /\ net.pc \in {"idle", "done"}
    /\ net' = [IdleNet EXCEPT !.pc = "in", !.at = 1]
    /\ UNCHANGED varsG
    /\ UNCHANGED othersF

\* the middleware at depth net.at runs up to its call_next: the request-id
\* middleware sets request.state.request_id to a new uuid (id), the logging
\* and error middleware read getattr(request.state, 'request_id',
\* 'unknown'); the code raises or not
NetEnter(raises, id) ==
    /\ net.pc = "in"
    /\ LET f == Stack[net.at]
           n == CASE f = "add_request_id_middleware" ->
                       [net EXCEPT !.state_request_id = id]
                  [] f = "logging_middleware" ->
                       [net EXCEPT !.logged_request_id = net.state_request_id]
                  [] f = "error_handling_middleware" ->
                       [net EXCEPT !.net_request_id = net.state_request_id]
                  [] OTHER -> net
       IN net' = IF raises /\ RunsBefore(f)
                 THEN Propagate(net, net.at, f)
                 ELSE [n EXCEPT !.at = net.at + 1,
                                !.pc = IF net.at = Len(Stack) THEN "handler" ELSE "in"]
    /\ UNCHANGED varsG
    /\ UNCHANGED othersF

\* the route handler returns a response, raises an HTTPException of status
\* s that the exception middleware answers, or raises another exception
NetHandler(o, s) ==
    /\ net.pc = "handler"
    /\ net' = CASE o = "return" ->
                     [net EXCEPT !.pc = "out", !.at = Len(Stack),
                                 !.resp = [NoResponse EXCEPT !.status = 200,
                                                             !.body = "handler",
                                                             !.by = "handler"]]
                [] o = "http_exception" ->
                     [net EXCEPT !.pc = "out", !.at = Len(Stack),
                                 !.resp = [NoResponse EXCEPT !.status = s,
                                                             !.body = "detail",
                                                             !.by = "ExceptionMiddleware"]]
                [] OTHER -> Propagate(net, HandlerDepth, "handler")
    /\ UNCHANGED varsG
    /\ UNCHANGED othersF

\* the middleware at depth net.at runs on the response of its call_next:
\* the security middleware adds its headers, the request-id middleware
\* adds X-Request-ID; the code raises or not
NetLeave(raises) ==
    /\ net.pc = "out"
    /\ LET f == Stack[net.at]
           r == CASE f = "security_headers_middleware" ->
                       [net.resp EXCEPT !.security_headers = TRUE]
                  [] f = "add_request_id_middleware" ->
                       [net.resp EXCEPT !.x_request_id = net.state_request_id]
                  [] OTHER -> net.resp
       IN net' = IF raises /\ RunsAfter(f)
                 THEN Propagate(net, net.at, f)
                 ELSE [net EXCEPT !.resp = r, !.at = net.at - 1,
                                  !.pc = IF net.at = 1 THEN "done" ELSE "out"]
    /\ UNCHANGED varsG
    /\ UNCHANGED othersF

NextNet ==
    \/ NetRequest
    \/ \E raises \in BOOLEAN, id \in RequestIds : NetEnter(raises, id)
    \/ \E o \in HandlerOutcomes, s \in HandlerStatuses : NetHandler(o, s)
    \/ \E raises \in BOOLEAN : NetLeave(raises)

(***************************************************************************)
(* Part G. POST /v1/conversations/batch                                    *)
(***************************************************************************)
\* largest number of ids in a request
MaxIds == 52

\* BatchConversationOperation.conversation_ids: min_items, max_items
min_items == 1

max_items == 50

\* settings.max_batch_operation_size
max_batch_operation_size == 50

\* the body with n ids passes the validation of the DTO
DtoAccepts(n) == min_items <= n /\ n <= max_items

\* the ids of a body with n ids that the cache tracks
BatchTracked(n) ==
    IF n = 0 THEN {} ELSE IF n = 1 THEN {"c1"} ELSE Conversations

\* a request outside of the handler
IdleBatch == [pc |-> "idle", n |-> 0, status |-> 0, calls |-> 0, by |-> ""]

InitG == bat = IdleBatch

\* the variables of the other parts
othersG == <<varsA, varsB, varsC, varsH, varsI, varsJ, varsK, varsL, varsM>>

\* an authenticated POST /v1/conversations/batch with n ids arrives
BatchRequest(n) ==
    /\ bat.pc \in {"idle", "done"}
    /\ bat' = [IdleBatch EXCEPT !.pc = "validate", !.n = n]
    /\ UNCHANGED <<varsD, varsE, varsF>>
    /\ UNCHANGED othersG

\* the body is parsed into BatchConversationOperation before the handler
\* is called; a body the DTO does not accept is answered 422
BatchValidate ==
    /\ bat.pc = "validate"
    /\ bat' = IF DtoAccepts(bat.n)
              THEN [bat EXCEPT !.pc = "handler"]
              ELSE [bat EXCEPT !.pc = "done", !.status = 422,
                               !.by = "validation"]
    /\ UNCHANGED <<varsD, varsE, varsF>>
    /\ UNCHANGED othersG

\* batch_conversation_operations: the size check, then proxy_request
\* (which succeeds or raises), then the cache deletes and the response
BatchHandler(ok) ==
    /\ bat.pc = "handler"
    /\ IF bat.n > max_batch_operation_size
       THEN /\ bat' = [bat EXCEPT !.pc = "done", !.status = 400, !.by = "handler"]
            /\ UNCHANGED cache
       ELSE IF ok
       THEN /\ bat' = [bat EXCEPT !.pc = "done", !.status = 200, !.calls = 1,
                                  !.by = "backend"]
            /\ cache' = IF redis_enabled
                        THEN DeleteDetails(cache, BatchTracked(bat.n),
                                           [c \in Conversations |-> "ok"], now)
                        ELSE cache
       ELSE /\ bat' = [bat EXCEPT !.pc = "done", !.status = 500, !.calls = 1,
                                  !.by = "handler"]
            /\ UNCHANGED cache
    /\ UNCHANGED <<now, ckey, cres, hist, nwrites>>
    /\ UNCHANGED <<varsE, varsF>>
    /\ UNCHANGED othersG

NextBatch ==
    \/ \E n \in 0..MaxIds : BatchRequest(n)
    \/ BatchValidate
    \/ \E ok \in BOOLEAN : BatchHandler(ok)

(***************************************************************************)
(* Part H. POST /v1/chat/regenerate                                        *)
(***************************************************************************)
\* the `except` clauses of regenerate_response: a ChatOrchestratorException
\* (every exception of the backend and gateway clients is one) is answered
\* 500 with its code, any other exception 500 INTERNAL_ERROR
RegenerateExcept(exc, c) ==
    IF exc \in {"EdgeFunctionError", "ServiceUnavailableError", "LiteLLMError"}
    THEN HttpError(500, c, <<>>)
    ELSE HttpError(500, "INTERNAL_ERROR", <<>>)

\* regenerate_response with the save handed to a background task
RegenerateAfterSaveIgnored(o) == HttpOk

\* `await supabase.save_response(...)` then `return ConversationResponse(...)`:
\* the response of the handler once save_response gave o
RegenerateAfterSave(o) ==
    IF o.act = "return" THEN HttpOk ELSE RegenerateExcept(o.exc, o.code)

\* no request
IdleRegenerate ==
    [pc |-> "idle", profile |-> [has_balance |-> FALSE, available_balance |-> 0,
                                 max_budget |-> 100],
     calls |-> <<>>, gpc |-> "unopened", nchunks |-> 0, acc |-> <<>>,
     content |-> <<>>, saved |-> <<>>, http |-> NoHttp, message_id |-> ""]

InitH1 == rg = IdleRegenerate

\* the variables of the other parts
othersH == <<varsA, varsB, varsC, varsD, varsE, varsF, varsG, varsI, varsJ, varsK, varsL, varsM>>

\* the request rg after the awaited call named c gave o: the handler goes
\* on to next, or leaves through its `except` clauses
RegenerateAwaited(c, o, next) ==
    [rg EXCEPT !.pc = IF o.act = "return" THEN next ELSE "finished",
               !.calls = Append(rg.calls, IF o.act = "return" THEN c \o ".ok"
                                          ELSE c \o ".err"),
               !.http = IF o.act = "return" THEN rg.http
                        ELSE RegenerateExcept(o.exc, o.code)]

\* a request arrives and the dependencies resolve the caller's profile
RegenerateRequest(p) ==
    /\ rg.pc = "idle"
    /\ rg' = [rg EXCEPT !.pc = "gate", !.profile = p]
    /\ UNCHANGED othersH

\* verify_user_balance
RegenerateGate ==
    /\ rg.pc = "gate"
    /\ rg' = IF BalanceInsufficient(rg.profile)
             THEN [rg EXCEPT !.pc = "finished", !.http = BalanceError(rg.profile)]
             ELSE [rg EXCEPT !.pc = "handler"]
    /\ UNCHANGED othersH

\* `branch_data = await supabase.create_branch(...)`: the call is issued
RegenerateCreateBranch ==
    /\ rg.pc = "handler"
    /\ rg' = [rg EXCEPT !.pc = "create_branch",
                        !.calls = Append(rg.calls, "create_branch")]
    /\ UNCHANGED othersH

\* create_branch returns or raises
RegenerateCreateBranchDone(o) ==
    /\ rg.pc = "create_branch"
    /\ rg' = RegenerateAwaited("create_branch", o, "build")
    /\ UNCHANGED othersH

\* `context_data = await supabase.build_context(...)`: the call is issued
RegenerateBuildContext ==
    /\ rg.pc = "build"
    /\ rg' = [rg EXCEPT !.pc = "build_context",
                        !.calls = Append(rg.calls, "build_context")]
    /\ UNCHANGED othersH

\* build_context returns or raises
RegenerateBuildContextDone(o) ==
    /\ rg.pc = "build_context"
    /\ rg' = RegenerateAwaited("build_context", o, "llm")
    /\ UNCHANGED othersH

\* `response_data = await accumulator.accumulate_stream(collect_stream())`,
\* one chunk of the gateway at a time: a delta is added to the content, the
\* loop stops at [DONE] or at the end of the stream, an exception goes to
\* the `except` clauses
RegenerateAccumulate(g) ==
    /\ rg.pc = "llm"
    /\ g.t # "resume"
    /\ LET l == LiteLLMNext(g, rg.acc)
           fin == l.k = "stop" \/ (l.k = "yield" /\ l.frame.t = "done")
           entries == (IF rg.gpc = "unopened" THEN <<"gateway">> ELSE <<>>)
                  \o <<IF fin THEN "gateway.end"
                       ELSE IF l.k = "raise" THEN "gateway.err"
                       ELSE "gateway.chunk">>
       IN rg' = [rg EXCEPT
                  !.acc = l.acc,
                  !.gpc = IF fin THEN "ended" ELSE l.gpc,
                  !.nchunks = IF l.k = "yield" /\ ~fin THEN rg.nchunks + 1
                              ELSE rg.nchunks,
                  !.content = IF l.k = "yield" THEN rg.content \o l.frame.delta
                              ELSE rg.content,
                  !.calls = rg.calls \o entries,
                  !.http = IF l.k = "raise" THEN RegenerateExcept(l.exc, l.code)
                           ELSE rg.http,
                  !.pc = IF fin THEN "save"
                         ELSE IF l.k = "raise" THEN "finished" ELSE "llm"]
    /\ UNCHANGED othersH

\* `await supabase.save_response(..., content=response_content, ...)`: the
\* call is issued
RegenerateSave ==
    /\ rg.pc = "save"
    /\ rg' = [rg EXCEPT !.pc = "save_response",
                        !.calls = Append(rg.calls, "save_response"),
                        !.saved = Append(rg.saved, rg.content)]
    /\ UNCHANGED othersH

\* save_response returns, and the handler returns ConversationResponse with
\* message_id="generated", or raises
RegenerateSaveDone(o) ==
    /\ rg.pc = "save_response"
    /\ rg' = [RegenerateAwaited("save_response", o, "finished") EXCEPT
                 !.http = RegenerateAfterSave(o),
                 !.message_id = IF RegenerateAfterSave(o) = HttpOk
                                THEN "generated" ELSE ""]
    /\ UNCHANGED othersH

NextRegenerate ==
    \/ \E p \in Profiles : RegenerateRequest(p)
    \/ RegenerateGate
    \/ RegenerateCreateBranch
    \/ \E o \in EdgeResults : RegenerateCreateBranchDone(o)
    \/ RegenerateBuildContext
    \/ \E o \in EdgeResults : RegenerateBuildContextDone(o)
    \/ \E g \in GatewayEvents(rg.gpc, rg.nchunks) : RegenerateAccumulate(g)
    \/ RegenerateSave
    \/ \E o \in EdgeResults : RegenerateSaveDone(o)

(***************************************************************************)
(* Part I. AuthService.decode_jwt in time: the token cache and `exp`       *)
(***************************************************************************)
\* TTLCache(maxsize=1000, ttl=300) of AuthService.__init__
TokenCacheTTL == 300

\* the instants at which a token is validated, in seconds
TokenInstants == {0, 200, 299, 300, 400}

\* the `exp` claims of the tokens
TokenExps == {100, 350}

\* signed tokens with a subject: the raw string and the `exp` claim
TimedTokens == {[name |-> "t" \o ToString(e), exp |-> e] : e \in TokenExps}

\* the instant at which an entry was stored; NotCached for no entry
NotCached == 0 - 1

\* `token in self.cache`: the TTLCache holds an entry stored at s until
\* s + ttl
TokenCached(s, t) == s # NotCached /\ t < s + TokenCacheTTL

\* jwt.decode at the instant t: the `exp` claim has passed
ExpClaimPassed(tok, t) == t > tok.exp

\* decode_jwt(tok) at the instant t with the entry stored at s:
\* [accepted, from_cache, exc, stored]
DecodeJwtAt(tok, s, t) ==
    IF TokenCached(s, t)
    THEN [accepted |-> TRUE, from_cache |-> TRUE, exc |-> NoExc, stored |-> s]
    ELSE IF ExpClaimPassed(tok, t)
    THEN [accepted |-> FALSE, from_cache |-> FALSE,
          exc |-> DecodeJwtExcept(Exc("ExpiredSignatureError", "")),
          stored |-> NotCached]
    ELSE [accepted |-> TRUE, from_cache |-> FALSE, exc |-> NoExc, stored |-> t]

\* the service before its first validation
NewTokenService ==
    [clock |-> 0, stored |-> [tok \in TimedTokens |-> NotCached],
     token |-> [name |-> "", exp |-> 0], at |-> 0, validated |-> FALSE,
     accepted |-> FALSE, from_cache |-> FALSE, exc |-> NoExc]

InitI == tk = NewTokenService

\* the variables of the other parts
othersI == <<varsA, varsB, varsC, varsD, varsE, varsF, varsG, varsH, varsJ, varsK, varsL, varsM>>

\* time passes
TokenTick(t) ==
    /\ t > tk.clock
    /\ tk' = [tk EXCEPT !.clock = t, !.validated = FALSE]
    /\ UNCHANGED othersI

\* a request carries the token tok: decode_jwt(tok)
TokenDecode(tok) ==
    /\ LET o == DecodeJwtAt(tok, tk.stored[tok], tk.clock)
       IN tk' = [tk EXCEPT !.stored[tok] = o.stored, !.token = tok,
                           !.at = tk.clock, !.validated = TRUE,
                           !.accepted = o.accepted,
                           !.from_cache = o.from_cache, !.exc = o.exc]
    /\ UNCHANGED othersI

NextToken ==
    \/ \E t \in TokenInstants : TokenTick(t)
    \/ \E tok \in TimedTokens : TokenDecode(tok)

(***************************************************************************)
(* Part J. StreamAccumulator.accumulate_stream                             *)
(***************************************************************************)
\* largest number of frames of an accumulated stream
MaxAccFrames == 3

\* the texts of choices[0].delta.content: none, `Hel`, `lo`
AccDeltas == {<<>>, <<"Hel">>, <<"lo">>}

\* the values of choices[0].finish_reason; "" is null
FinishReasons == {"", "stop", "length"}

\* a frame `data: {json}` with one choice
DataFrame(d, f) == [t |-> "data", delta |-> d, finish_reason |-> f]
\* `data: [DONE]`
AccDoneFrame == [t |-> "done", delta |-> <<>>, finish_reason |-> ""]
\* a frame `data: ` whose text is not JSON
JunkFrame == [t |-> "junk", delta |-> <<>>, finish_reason |-> ""]
\* a frame that does not start with `data: `
CommentFrame == [t |-> "comment", delta |-> <<>>, finish_reason |-> ""]

AccFrames ==
    {DataFrame(d, f) : d \in AccDeltas, f \in FinishReasons}
    \cup {AccDoneFrame, JunkFrame, CommentFrame}

\* the frame sequences of up to n frames
AccStreams(n) == UNION {[1..k -> AccFrames] : k \in 0..n}

\* an accumulator that reads on after [DONE]
AccumulatorBreaksNever(f) == FALSE

\* `if data_content == "[DONE]": break`
AccumulatorBreaks(f) == f.t = "done"

\* self.content after the frame f
AccumulatorContent(c, f) == IF f.t = "data" THEN c \o f.delta ELSE c

\* self.metadata["finish_reason"] after the frame f ("": not set)
AccumulatorFinish(m, f) ==
    IF f.t = "data" /\ f.finish_reason # "" THEN f.finish_reason ELSE m

\* the completion object accumulate_stream returns
AccumulatorResult(c, m) ==
    [content |-> c, finish_reason |-> IF m = "" THEN "stop" ELSE m]

\* a new StreamAccumulator
NewAccumulator ==
    [pc |-> "new", frames |-> <<>>, taken |-> 0, content |-> <<>>,
     finish_reason |-> "", result |-> AccumulatorResult(<<>>, "")]

InitJ == sa = NewAccumulator

\* the variables of the other parts
othersJ == <<varsA, varsB, varsC, varsD, varsE, varsF, varsG, varsH, varsI, varsK, varsL, varsM>>

\* accumulate_stream is called with a generator that yields the frames fs
AccumulateStream(fs) ==
    /\ sa.pc = "new"
    /\ sa' = [sa EXCEPT !.pc = "loop", !.frames = fs]
    /\ UNCHANGED othersJ

\* one iteration of `async for chunk in stream_generator`, or its end and
\* the return of the completion object
AccumulateFrame ==
    /\ sa.pc = "loop"
    /\ IF sa.taken = Len(sa.frames)
       THEN sa' = [sa EXCEPT !.pc = "returned",
                             !.result = AccumulatorResult(sa.content, sa.finish_reason)]
       ELSE LET f == sa.frames[sa.taken + 1]
            IN IF AccumulatorBreaks(f)
               THEN sa' = [sa EXCEPT !.pc = "returned", !.taken = sa.taken + 1,
                                     !.result = AccumulatorResult(sa.content,
                                                                  sa.finish_reason)]
               ELSE sa' = [sa EXCEPT !.taken = sa.taken + 1,
                                     !.content = AccumulatorContent(sa.content, f),
                                     !.finish_reason =
                                         AccumulatorFinish(sa.finish_reason, f)]
    /\ UNCHANGED othersJ

NextAccumulator ==
    \/ \E fs \in AccStreams(MaxAccFrames) : AccumulateStream(fs)
    \/ AccumulateFrame

(***************************************************************************)
(* Part K. utils/validators.validate_message_content                       *)
(***************************************************************************)
\* largest number of runs of a text
MaxRuns == 2

\* `max_length=32000` of the call of sanitize_text
MaxMessageLength == 32000

\* the classes of characters: "x" printing and not white space; "s" white
\* space that sanitize_text keeps (space, \t, \n, \r); "w" white space that
\* it removes (\x0B, \x0C, \x1C-\x1F); "c" the other characters it removes
\* (\x00-\x08, \x0E-\x1B, \x7F)
CharClasses == {"x", "s", "w", "c"}

\* the characters str.strip() strips
IsSpace(c) == c \in {"s", "w"}

\* the characters `[\x00-\x08\x0B\x0C\x0E-\x1F\x7F]` matches
IsControl(c) == c \in {"w", "c"}

\* the lengths of a run of characters of one class
RunLengths == {1, MaxMessageLength - 1, MaxMessageLength, MaxMessageLength + 1}

\* a text is a sequence of runs, each n >= 1 characters of the class c
Runs == {[c |-> c, n |-> n] : c \in CharClasses, n \in RunLengths}

Texts(k) == UNION {[1..j -> Runs] : j \in 0..k}

RECURSIVE TextLen(_)
\* len(t)
TextLen(t) == IF t = <<>> THEN 0 ELSE Head(t).n + TextLen(Tail(t))

RECURSIVE RemoveControl(_)
\* re.sub(r'[\x00-\x08\x0B\x0C\x0E-\x1F\x7F]', '', t)
RemoveControl(t) ==
    IF t = <<>> THEN <<>>
    ELSE IF IsControl(Head(t).c) THEN RemoveControl(Tail(t))
    ELSE <<Head(t)>> \o RemoveControl(Tail(t))

RECURSIVE Slice(_, _)
\* t[:m]
Slice(t, m) ==
    IF t = <<>> \/ m = 0 THEN <<>>
    ELSE IF Head(t).n <= m THEN <<Head(t)>> \o Slice(Tail(t), m - Head(t).n)
    ELSE <<[c |-> Head(t).c, n |-> m]>>

RECURSIVE LStrip(_)
LStrip(t) ==
    IF t = <<>> THEN <<>>
    ELSE IF IsSpace(Head(t).c) THEN LStrip(Tail(t)) ELSE t

RECURSIVE RStrip(_)
RStrip(t) ==
    IF t = <<>> THEN <<>>
    ELSE IF IsSpace(t[Len(t)].c) THEN RStrip(SubSeq(t, 1, Len(t) - 1)) ELSE t

\* t.strip()
Strip(t) == RStrip(LStrip(t))

\* sanitize_text(t, max_length=m)
SanitizeText(t, m) ==
    LET sanitized == RemoveControl(t)
    IN Strip(IF m # 0 /\ TextLen(sanitized) > m THEN Slice(sanitized, m)
             ELSE sanitized)

\* what a validator does: raises ValueError, or returns a value
Invalid == [raised |-> TRUE, value |-> <<>>]
Valid(v) == [raised |-> FALSE, value |-> v]

\* validate_message_content(cls, v)
ValidateMessageContent(v) ==
    IF v = <<>> \/ Strip(v) = <<>> THEN Invalid
    ELSE IF TextLen(SanitizeText(v, MaxMessageLength)) < 1 THEN Invalid
    ELSE Valid(SanitizeText(v, MaxMessageLength))

\* no call
NoValidation == [pc |-> "new", text |-> <<>>, out |-> Invalid]

InitK == vt = NoValidation

\* the variables of the other parts
othersK == <<varsA, varsB, varsC, varsD, varsE, varsF, varsG, varsH, varsI, varsJ, varsL, varsM>>

\* the validator is called with the message body v
ValidateCall(v) ==
    /\ vt.pc = "new"
    /\ vt' = [vt EXCEPT !.pc = "called", !.text = v]
    /\ UNCHANGED othersK

\* the validator raises or returns
ValidateReturn ==
    /\ vt.pc = "called"
    /\ vt' = [vt EXCEPT !.pc = "done", !.out = ValidateMessageContent(vt.text)]
    /\ UNCHANGED othersK

NextValidate ==
    \/ \E v \in Texts(MaxRuns) : ValidateCall(v)
    \/ ValidateReturn

(***************************************************************************)
(* Part L. add_message through call_edge_function, and the backend's       *)
(*         record of the user's message                                    *)
(***************************************************************************)
\* whether the backend can have recorded the message when the attempt ends
\* with resp: it has when it answers 200 with success, it has not when it
\* answers another 200 or a 4xx, and either when it answers 5xx or the
\* request ends in a timeout or another transport error
MayRecord(resp) ==
    IF resp.err \/ Is5xx(resp) THEN BOOLEAN
    ELSE IF resp.status = 200 /\ resp.success THEN {TRUE}
    ELSE {FALSE}

InitL == recorded = 0

\* the variables of the other parts
othersL == <<varsB, varsC, varsD, varsE, varsF, varsG, varsH, varsI, varsJ, varsK, varsM>>

\* chat_completions: `await supabase_client.add_message(...)`, which is
\* call_edge_function("add-message", data, user_token) with the default
\* retries
AddMessageCall ==
    /\ rpc = "idle"
    /\ svc' = "edge"
    /\ retries' = DefaultRetries
    /\ attempt' = 0
    /\ rpc' = "request"
    /\ UNCHANGED <<seen, waits, result, recorded>>
    /\ UNCHANGED othersL

\* one POST of the same body {conversation_id, content, role, parent_id},
\* which the backend records (rec) or not, and the handling of the response
AddMessageAttempt(resp, rec) ==
    /\ svc = "edge"
    /\ rpc = "request"
    /\ rec \in MayRecord(resp)
    /\ seen' = Append(seen, resp)
    /\ Apply(EdgeStep(resp, attempt, retries))
    /\ recorded' = IF rec THEN recorded + 1 ELSE recorded
    /\ UNCHANGED <<svc, retries, attempt>>
    /\ UNCHANGED othersL

NextAddMessage ==
    \/ AddMessageCall
    \/ \E resp \in Responses, rec \in BOOLEAN : AddMessageAttempt(resp, rec)
    \/ EdgeBackoff

(***************************************************************************)
(* Part M. The sampling parameters of a chat completion: request model     *)
(*         and llm_params                                                  *)
(***************************************************************************)
\* Field(0.7, ...) of temperature, in tenths
TemperatureDefault == 7

\* Field(2000, ...) of max_tokens
MaxTokensDefault == 2000

\* the temperatures a caller may send, in tenths: -0.1 to 2.1
Temperatures == (0 - 1)..21

\* the max_tokens a caller may send
MaxTokens == {0, 1, 2000, 8192, 8193}

\* a field of the request body: absent, null, or a number
Absent == [kind |-> "absent", v |-> 0]
Null == [kind |-> "null", v |-> 0]
Value(x) == [kind |-> "value", v |-> x]

\* the request bodies
ParamBodies ==
    [temperature : {Absent, Null} \cup {Value(t) : t \in Temperatures},
     max_tokens : {Absent, Null} \cup {Value(m) : m \in MaxTokens}]

\* an Optional attribute of the validated request: <<>> is None
None == <<>>
Some(x) == <<x>>

\* ChatCompletionRequest: whether the body passes validation
\* (temperature ge=0, le=2; max_tokens gt=0, le=8192)
RequestValid(b) ==
    /\ b.temperature.kind = "value" => (b.temperature.v >= 0 /\ b.temperature.v <= 20)
    /\ b.max_tokens.kind = "value" => (b.max_tokens.v > 0 /\ b.max_tokens.v <= 8192)

\* the attribute of the validated request for a field with default d
Attribute(f, d) ==
    CASE f.kind = "absent" -> Some(d)
      [] f.kind = "null" -> None
      [] OTHER -> Some(f.v)

\* Python's `x or d` for an Optional number x: d when x is None or 0
Or(x, d) == IF x = None \/ x[1] = 0 THEN d ELSE x[1]

\* no request
NoParams == [pc |-> "new", body |-> [temperature |-> Absent, max_tokens |-> Absent],
             temperature |-> None, max_tokens |-> None,
             status |-> 0, llm_temperature |-> 0, llm_max_tokens |-> 0]

InitM == tp = NoParams

\* the variables of the other parts
othersM == <<varsA, varsB, varsC, varsD, varsE, varsF, varsG, varsH, varsI,
             varsJ, varsK, varsL>>

\* POST /v1/chat/completions arrives with the body b
ParamsRequest(b) ==
    /\ tp.pc = "new"
    /\ tp' = [tp EXCEPT !.pc = "received", !.body = b]
    /\ UNCHANGED othersM

\* the body is validated against ChatCompletionRequest: 422, or the request
\* object the handler gets
ParamsValidate ==
    /\ tp.pc = "received"
    /\ tp' = IF RequestValid(tp.body)
             THEN [tp EXCEPT !.pc = "valid",
                             !.temperature = Attribute(tp.body.temperature, TemperatureDefault),
                             !.max_tokens = Attribute(tp.body.max_tokens, MaxTokensDefault)]
             ELSE [tp EXCEPT !.pc = "rejected", !.status = 422]
    /\ UNCHANGED othersM

\* chat_completions, step 3: llm_params
ParamsPrepare ==
    /\ tp.pc = "valid"
    /\ tp' = [tp EXCEPT !.pc = "prepared",
                        !.llm_temperature = Or(tp.temperature, 7),
                        !.llm_max_tokens = Or(tp.max_tokens, 2000)]
    /\ UNCHANGED othersM

NextParams ==
    \/ \E b \in ParamBodies : ParamsRequest(b)
    \/ ParamsValidate
    \/ ParamsPrepare

(***************************************************************************)
(* Specifications                                                          *)
(***************************************************************************)
Init == InitA /\ InitB /\ InitC /\ InitD /\ InitE /\ InitF /\ InitG /\ InitH1 /\ InitI /\ InitJ /\ InitK /\ InitL /\ InitM

SpecRetry == Init /\ [][NextRetry]_vars

SpecChat == Init /\ [][NextChat]_vars

SpecSSE == Init /\ [][NextSSE]_vars

SpecAuth == Init /\ [][NextAuth]_vars

SpecCache == Init /\ [][NextCache]_vars

SpecFallback == Init /\ [][NextFallback]_vars

SpecConv == Init /\ [][NextConv]_vars

SpecNet == Init /\ [][NextNet]_vars

SpecBatch == Init /\ [][NextBatch]_vars

SpecRegenerate == Init /\ [][NextRegenerate]_vars

SpecToken == Init /\ [][NextToken]_vars

SpecAccumulator == Init /\ [][NextAccumulator]_vars

SpecValidate == Init /\ [][NextValidate]_vars

SpecShare == Init /\ [][NextShare]_vars

SpecRace == Init /\ [][NextRace]_vars

SpecAddMessage == Init /\ [][NextAddMessage]_vars

\* SpecChat with the steps the server takes by itself not postponed for
\* ever: event_stream resumes the generator, its finally runs, the
\* background tasks run after the response, save_response returns
SpecChatFair ==
    /\ Init /\ [][NextChat]_vars
    /\ WF_vars(\E g \in GatewayEvents(gpc, NChunks) : StreamNext(g))
    /\ WF_vars(StreamFinally)
    /\ WF_vars(RunBackground)
    /\ WF_vars(\E o \in EdgeResults : SaveDone(o))

SpecParams == Init /\ [][NextParams]_vars

(***************************************************************************)
(* Claims                                                                  *)
(***************************************************************************)
LastOf(q) == q[Len(q)]

NErrorFrames(b) == Cardinality({i \in 1..Len(b) : b[i].t = "error"})

NChunkFrames(b) == Cardinality({i \in 1..Len(b) : b[i].t = "chunk"})

\* C1: a response body built by create_sse_response ends with the [DONE]
\* frame, whether the wrapped generator finished, raised a
\* ChatOrchestratorException or raised any other exception.
C1_BodyEndsWithDone ==
    (cpc = "sse" /\ epc = "closed") => (body # <<>> /\ LastOf(body) = DoneFrame)

\* the generator yielded a frame and then raised an unknown exception
C1_Witness ==
    /\ cpc = "sse" /\ epc = "closed" /\ Len(body) = 3
    /\ body[1].t = "chunk"
    /\ body[2] = ErrorFrame("INTERNAL_ERROR")
    /\ body[3] = DoneFrame

\* C2: build_context is issued only after add_message returned successfully,
\* the gateway call only after build_context returned successfully, and
\* save_response only after the gateway stream was fully relayed (streaming:
\* the body is closed and holds every chunk the gateway sent) or fully
\* accumulated (non-streaming: the content is all the gateway produced).
C2_Sequential ==
    \A i \in 1..Len(calls) :
        /\ calls[i] = "build_context" =>
              \E j \in 1..(i - 1) : calls[j] = "add_message.ok"
        /\ calls[i] = "gateway" =>
              \E j \in 1..(i - 1) : calls[j] = "build_context.ok"
        /\ calls[i] = "save_response" =>
              /\ \E j \in 1..(i - 1) : calls[j] = "gateway.end"
              /\ stream => (epc = "closed" /\ NChunkFrames(body) = NChunks)
              /\ ~stream => (full_response = acc /\ http = HttpOk)

\* a streamed completion of two chunks whose save has been issued
C2_Witness ==
    /\ stream /\ cpc = "saving" /\ NChunks = 2
    /\ LastOf(calls) = "save_response"

\* the handler has started for this request
PastGate ==
    \/ cpc \in {"handler", "add_message", "build", "build_context", "llm",
                "streaming", "accumulating", "responded", "saving"}
    \/ calls # <<>>

\* C3: a request passes the balance gate only if the profile reports no
\* balance or a balance > 0; with a balance of 0 it is answered 402
\* INSUFFICIENT_BALANCE with available_balance and max_budget in the details
\* and no backend or gateway call is ever made for it.
C3_BalanceGate ==
    /\ PastGate => (~profile.has_balance \/ profile.available_balance > 0)
    /\ (cpc \notin {"idle", "gate"} /\ profile.has_balance
            /\ profile.available_balance = 0) =>
          /\ cpc = "finished"
          /\ http = HttpError(402, "INSUFFICIENT_BALANCE", <<0, profile.max_budget>>)
          /\ calls = <<>>

\* a profile with balance 0 was answered
C3_Witness ==
    /\ cpc = "finished" /\ profile.has_balance /\ profile.available_balance = 0
    /\ http.status = 402

\* C4: when the gateway call fails in a streamed completion, the body gets
\* exactly one error frame, that frame is followed by the closing [DONE]
\* frame, and the response keeps the status 200 it started with.
C4_StreamingFailureInBand ==
    (stream /\ gpc = "failed") =>
        /\ http = HttpOk
        /\ NErrorFrames(body) = 1
        /\ epc \in {"finally", "closed"}
        /\ epc = "finally" => LastOf(body).t = "error"
        /\ epc = "closed" =>
              /\ body[Len(body) - 1].t = "error"
              /\ LastOf(body) = DoneFrame

\* the gateway failed after one chunk had been relayed
C4_Witness ==
    /\ stream /\ gpc = "failed" /\ epc = "closed" /\ Len(body) = 3
    /\ body[1].t = "chunk"

CallOver == rpc \in {"returned", "raised"}

\* C6: a 4xx answer of the backend reaches the caller of proxy_request as
\* an HTTP error with the same status code.
C6_FourXXSurfaced ==
    (svc = "proxy" /\ CallOver /\ Is4xx(LastOf(seen))) =>
        /\ result.act = "raise"
        /\ result.exc = "HTTPException"
        /\ result.status = LastOf(seen).status

\* the answers after which a re-send is allowed
Retryable(resp) == resp.err \/ Is5xx(resp)

\* C7: proxy_request sends another attempt, or sleeps, only after a
\* transport error or a 5xx; a 400 on the first attempt raises at once.
C7_ProxyRetriesOnly5xx ==
    svc = "proxy" =>
        /\ \A i \in 1..(Len(seen) - 1) : Retryable(seen[i])
        /\ rpc = "sleep" => Retryable(LastOf(seen))
        /\ (Len(seen) >= 1 /\ seen[1].status = 400) =>
              (rpc = "raised" /\ Len(seen) = 1 /\ waits = <<>>)

\* C8: call_edge_function never retries a 4xx: the attempt that is answered
\* with a 4xx is the last one of its call and ends it, with no backoff.
C8_EdgeNeverRetries4xx ==
    svc = "edge" =>
        \A i \in 1..Len(seen) :
            Is4xx(seen[i]) => (i = Len(seen) /\ CallOver)

\* C9 as stated: with the default retries, at most 3 attempts are sent.
C9_AtMostThreeAttempts ==
    (svc # "none" /\ retries = DefaultRetries) => Len(seen) <= 3

\* C9 amended: a call sends at most retries + 1 attempts, 4 with the
\* default of 3 retries, and it is over once the last of them is answered.
C9_AttemptsBounded ==
    svc # "none" =>
        /\ attempt <= retries
        /\ Len(seen) <= retries + 1
        /\ retries = DefaultRetries => Len(seen) <= 4
        /\ Len(seen) = retries + 1 => CallOver

\* a call that used all 4 attempts of the default
C9_Witness ==
    /\ svc = "edge" /\ retries = DefaultRetries /\ Len(seen) = 4 /\ rpc = "raised"

\* the backend answered 5xx to every attempt but the last, and 200 to that
FiveXXThen200 ==
    /\ Len(seen) >= 1
    /\ \A i \in 1..(Len(seen) - 1) : Is5xx(seen[i])
    /\ ~LastOf(seen).err /\ LastOf(seen).status = 200

\* C10: after k 5xx answers and then a 200, k <= retries, proxy_request
\* returns the transformed 200 response, having slept 2^i seconds after the
\* i-th failure (i from 0); after 503, 503, 200 it has slept 1 + 2 seconds.
C10_BackoffThenSuccess ==
    (svc = "proxy" /\ FiveXXThen200) =>
        /\ rpc = "returned"
        /\ result.act = "return" /\ result.status = 200
        /\ result.success = LastOf(seen).success
        /\ Len(seen) - 1 <= retries
        /\ Len(waits) = Len(seen) - 1
        /\ \A i \in 1..Len(waits) : waits[i] = Pow2(i - 1)
        /\ Len(seen) = 3 => (waits = <<1, 2>> /\ SumSeq(waits) >= 3)

\* 503, 503, 200 with retries = 3
C10_Witness ==
    /\ svc = "proxy" /\ retries = 3 /\ rpc = "returned" /\ Len(seen) = 3
    /\ seen[1].status = 503 /\ seen[2].status = 503 /\ seen[3].status = 200
    /\ waits = <<1, 2>>

(***************************************************************************)
(* Claims about authentication                                             *)
(***************************************************************************)
\* the tokens the claims call malformed, invalid or expired
BadTokens ==
    {t \in Tokens : t.decode \in {"ExpiredSignatureError", "JWTClaimsError", "JWTError"}
                     \/ (t.decode = "ok" /\ ~(t.sub /\ t.exp))}

\* the error kind the contract names for the cause the header carries
ExpectedKind(h) ==
    IF h.prefix # "Bearer " \/ h.token = NoToken THEN "InvalidTokenError"
    ELSE IF h.token.decode = "ExpiredSignatureError" THEN "TokenExpiredError"
    ELSE IF h.token \in BadTokens THEN "InvalidTokenError"
    ELSE IF h.token.decode = "Exception" THEN "AuthenticationError"
    ELSE "none"

\* C11: token validation fails with the error kind of the cause:
\* InvalidTokenError for a missing, malformed or empty header, a token
\* without subject or expiration, or an invalid signature, claim or format;
\* TokenExpiredError for an expired token; the base AuthenticationError only
\* for another unexpected failure
C11_ErrorKindPerCause ==
    apc = "validated" => aexc.kind = ExpectedKind(authz)

\* C12: a request to a protected endpoint whose bearer token is malformed,
\* invalid or expired is answered with HTTP 401
C12_BadTokenIs401 ==
    (apc = "answered" /\ authz.prefix = "Bearer " /\ authz.token \in BadTokens)
        => ahttp = 401

(***************************************************************************)
(* Claims about the gateway's rate limit                                   *)
(***************************************************************************)
\* C13: when the gateway answers a chat completion with HTTP 429 the gateway
\* service raises RateLimitError, and the non-streaming request hit by it is
\* answered with HTTP 429
C13_Gateway429Is429 ==
    (~stream /\ gwlast.status = 429)
        => (gwlast.exc = "RateLimitError" /\ http.status = 429)

(***************************************************************************)
(* Claims about the cache service                                          *)
(***************************************************************************)
\* the default TTL the contract gives each namespace
ClaimTTL(ns) ==
    CASE ns = "models" -> 3600
      [] ns = "user_profiles" -> 900
      [] ns = "conversations" -> 300
      [] OTHER -> 3600

\* a set without TTL in fallback mode stores the namespace default
SetStoresDefault ==
    (/\ cres.op = "set" /\ hist.written /\ hist.default /\ hist.at = now
     /\ cache.fallback_cache[ckey] # NoEntry)
        => cache.fallback_cache[ckey].expires_at = now + ClaimTTL(ckey.ns)

\* C16 as stated: a value set without an explicit TTL gets the default of
\* its namespace (3600, 900, 300, else 3600 s) and, in the fallback tier, a
\* get returns it at every instant before the TTL has elapsed and returns
\* absent from that instant on (the caller did not delete it meanwhile)
C16_DefaultTTLExact ==
    /\ SetStoresDefault
    /\ (/\ cres.op = "get" /\ ~cache.redis_available
        /\ hist.written /\ hist.default /\ hist.removed # "caller")
           => ((cres.value # 0) <=> (now < hist.at + ClaimTTL(ckey.ns)))

\* C16 amended: the same, for an entry that neither a caller deleted nor
\* the size limit of a write removed
C16_DefaultTTLUnlessTrimmed ==
    /\ SetStoresDefault
    /\ (/\ cres.op = "get" /\ ~cache.redis_available
        /\ hist.written /\ hist.default /\ hist.removed = "no")
           => ((cres.value # 0) <=> (now < hist.at + ClaimTTL(ckey.ns)))

\* a get of a `conversations` key exactly 300 s after its set finds nothing,
\* while the entry was neither deleted nor trimmed
C16_Witness ==
    /\ cres.op = "get" /\ ~cache.redis_available /\ ckey.ns = "conversations"
    /\ hist.written /\ hist.default /\ hist.removed = "no"
    /\ now = hist.at + 300
    /\ cres.value = 0

\* the backend call or the body of the operation failed
Struck ==
    \/ cache.redis_available /\ cres.fault = "redis_error"
    \/ cres.fault = "op_error" /\ cres.op \in {"set", "delete_pattern"}

\* C17: no cache operation (get, set, delete, delete_pattern, exists,
\* get_ttl) propagates an exception; when the backend or the operation
\* fails it gives its miss or no-op result (None, False, 0)
C17_NeverPropagates ==
    /\ ~cres.raised
    /\ Struck => cres.value = (IF cres.op = "get_ttl" THEN -1 ELSE 0)

\* a delete whose Redis call failed has returned False
C17_Witness ==
    /\ cres.op = "delete" /\ cache.redis_available /\ cres.fault = "redis_error"
    /\ ~cres.raised /\ cres.value = 0

\* C18 as stated: whenever a write in fallback mode leaves the map with
\* more than 1,000 entries the map is trimmed to 800, earliest expiry
\* first; the map never holds more than 1,000 entries after a write
C18_TrimWhenOver ==
    (cres.op \in {"set", "set_other"} /\ ~cache.redis_available /\ cres.value = 1)
        => /\ cres.write.size <= 1000
           /\ cres.write.inserted > 1000
                 => (cres.write.size = 800
                     /\ cres.write.maxremoved <= cres.write.minkept)

\* C18 amended: whenever a write in fallback mode leaves more than 1,000
\* entries that have not expired (the expired ones are deleted first), the
\* map is trimmed to 800, earliest expiry first; the map never holds more
\* than 1,000 entries after a write
C18_TrimWhenOverLive ==
    (cres.op \in {"set", "set_other"} /\ ~cache.redis_available /\ cres.value = 1)
        => /\ cres.write.size <= 1000
           /\ cres.write.live > 1000
                 => (cres.write.size = 800
                     /\ cres.write.maxremoved <= cres.write.minkept)

\* a write found 1,001 live entries and left 800, with entries of two
\* different expiry instants in the map
C18_Witness ==
    /\ cres.op = "set_other" /\ cres.write.live = 1001 /\ cres.write.size = 800
    /\ cres.write.maxremoved < MinExpiry([cache EXCEPT !.bulk[cres.write.minkept] = 0])

(***************************************************************************)
(* Claims about the cached conversation detail                             *)
(***************************************************************************)
\* C14: after a successful mutating call on a conversation has returned,
\* a GET of the conversation is not answered from a cache entry written
\* before that call: an answer from the cache comes from an entry written
\* when every mutating call that had returned before the GET had returned
C14_MutationInvalidates ==
    (rd.pc = "done" /\ rd.from = "cache") => log.wepoch[rd.conv] >= rd.start

\* C15: after a successful DELETE /v1/conversations/{id} has returned, a get
\* of conversation_detail:{id} returns absent
C15_AbsentAfterDelete ==
    (rd.pc \in {"done", "fetch"} /\ rd.afterdelete) => ~rd.hit

(***************************************************************************)
(* Claims about the middleware stack                                       *)
(***************************************************************************)
\* C19: an exception that escapes a route handler or one of the security
\* headers, request-id and logging middleware is caught by the error net
\* and answered with HTTP 500 and a JSON body that carries the request id
\* assigned to the request
C19_ErrorNetWrapsAll ==
    (net.pc = "done" /\ net.raised # "")
        => /\ net.resp.by = "error_handling_middleware"
           /\ net.resp.status = 500
           /\ net.resp.body = "json"
           /\ net.resp.request_id \in RequestIds
           /\ net.resp.request_id = net.state_request_id

(***************************************************************************)
(* Claims about the batch conversation operation                           *)
(***************************************************************************)
\* C20: a batch conversation operation with 51 ids is answered HTTP 400
\* with no backend call, and one with 50 ids is forwarded to the backend
C20_BatchLimit ==
    bat.pc = "done"
        => /\ bat.n = max_batch_operation_size + 1
                => bat.status = 400 /\ bat.calls = 0
           /\ bat.n = max_batch_operation_size => bat.calls = 1

(***************************************************************************)
(* Claims about POST /v1/chat/regenerate                                   *)
(***************************************************************************)
\* the calls regenerate_response issues, in its order
RegenerateOrder == <<"create_branch", "build_context", "gateway", "save_response">>

\* the entry of the log that ends the call named c without an error
RegenerateEnd(c) == IF c = "gateway" THEN "gateway.end" ELSE c \o ".ok"

C27_NeverAcceptedAfterExp ==
    (tk.validated /\ tk.at > tk.token.exp) => ~tk.accepted

(***************************************************************************)
(* Claims about the stream accumulator                                     *)
(***************************************************************************)
\* the number of frames of fs before its first [DONE] frame
BeforeDone(fs) ==
    LET ds == {i \in 1..Len(fs) : fs[i].t = "done"}
    IN IF ds = {} THEN Len(fs) ELSE (CHOOSE i \in ds : \A j \in ds : i <= j) - 1

RECURSIVE ConcatDeltas(_, _)
\* the delta contents of the first n frames of fs, in order
ConcatDeltas(fs, n) ==
    IF n = 0 THEN <<>>
    ELSE ConcatDeltas(fs, n - 1) \o (IF fs[n].t = "data" THEN fs[n].delta ELSE <<>>)

\* the last finish_reason among the first n frames of fs, `stop` if none
LastFinish(fs, n) ==
    LET is == {i \in 1..n : fs[i].t = "data" /\ fs[i].finish_reason # ""}
    IN IF is = {} THEN "stop"
       ELSE fs[CHOOSE i \in is : \A j \in is : j <= i].finish_reason

\* C22: the completion object of the accumulator has as content the
\* in-order concatenation of the delta contents of the data frames before
\* the first [DONE] frame, and as finish_reason the last one seen among
\* them or `stop`; no frame after the first [DONE] is consumed; for `Hel`,
\* `lo`, [DONE] the content is `Hello` and the finish_reason `stop`.
C22_AccumulatorConcatenates ==
    /\ sa.taken <= BeforeDone(sa.frames) + 1 /\ sa.taken <= Len(sa.frames)
    /\ sa.pc = "returned" =>
          /\ sa.result.content = ConcatDeltas(sa.frames, BeforeDone(sa.frames))
          /\ sa.result.finish_reason = LastFinish(sa.frames, BeforeDone(sa.frames))
          /\ sa.frames = <<DataFrame(<<"Hel">>, ""), DataFrame(<<"lo">>, ""),
                           AccDoneFrame>>
                => sa.result = [content |-> <<"Hel", "lo">>, finish_reason |-> "stop"]

\* `Hel`, `lo`, [DONE] was accumulated
C22_Witness ==
    /\ sa.pc = "returned"
    /\ sa.frames = <<DataFrame(<<"Hel">>, ""), DataFrame(<<"lo">>, ""), AccDoneFrame>>
    /\ sa.result.content = <<"Hel", "lo">>

(***************************************************************************)
(* Claims about the message-content validator                              *)
(***************************************************************************)
\* C23: the message-content validator raises a validation error for every
\* message body longer than 32,000 characters
C23_LongMessageRejected ==
    (vt.pc = "done" /\ TextLen(vt.text) > 32000) => vt.out.raised

(***************************************************************************)
(* Claims about who is served from the detail cache, and with what         *)
(***************************************************************************)
\* C24: a GET /v1/conversations/{id} answered from the detail cache is
\* answered only to a caller whom the backend would authorise for the
\* conversation
C24_CacheOnlyForAuthorised ==
    (rd.pc = "done" /\ rd.from = "cache") => rd.conv \in Authorised[rd.user]

\* C25: a GET /v1/conversations/{id} that begins after a successful PATCH
\* of the conversation has returned is not answered from the cache with
\* data older than that PATCH
C25_NoStaleAfterPatch ==
    (rd.pc = "done" /\ rd.from = "cache") => rd.value >= CachedResponse(rd.start)

(***************************************************************************)
(* Claims about add_message                                                *)
(***************************************************************************)
\* C26: the message of one chat completion request is recorded in the
\* backend at most once, whatever the attempts of add_message meet
C26_RecordedAtMostOnce == recorded <= 1

(***************************************************************************)
(* Claims about the end of a chat completion                               *)
(***************************************************************************)
NDoneFrames(b) == Cardinality({i \in 1..Len(b) : b[i] = DoneFrame})

\* C28: the body of a streamed chat completion whose gateway stream ended
\* without error holds the [DONE] frame exactly once, as its last frame
C28_DoneExactlyOnce ==
    (stream /\ cpc # "sse" /\ epc = "closed" /\ gpc = "ended") =>
        (NDoneFrames(body) = 1 /\ LastOf(body) = DoneFrame)

\* the number of save_response calls issued
NSaveCalls == Cardinality({i \in 1..Len(calls) : calls[i] = "save_response"})

RECURSIVE BodyContent(_)
\* the delta contents of the chunk frames of a body, in order
BodyContent(b) ==
    IF b = <<>> THEN <<>>
    ELSE (IF Head(b).t = "chunk" THEN Head(b).delta ELSE <<>>) \o BodyContent(Tail(b))

\* the save of this request is scheduled or issued only after the gateway
\* stream ended without an exception, at most once, and with the content
\* the gateway produced
SaveOnlyAfterNormalEnd ==
    /\ Len(tasks) <= 1
    /\ NSaveCalls <= 1
    /\ gpc # "ended" => (tasks = <<>> /\ NSaveCalls = 0)
    /\ (NSaveCalls = 1 /\ cpc # "saving") => tasks = <<>>
    /\ tasks # <<>> =>
          /\ Head(tasks) = acc
          /\ stream => Head(tasks) = BodyContent(body)

C30_TemperaturePassedThrough ==
    tp.pc = "prepared" =>
        /\ tp.body.temperature.kind = "value" =>
              tp.llm_temperature = tp.body.temperature.v
        /\ tp.llm_temperature = TemperatureDefault =>
              (tp.body.temperature.kind # "value"
                  \/ tp.body.temperature.v = TemperatureDefault)

====
